---- MODULE Spec2Model ----
(***************************************************************************)
(* Sliding-tile puzzle search engine: the puzzle domains (RectPuzzle,      *)
(* NPuzzle, puzzle8), the Manhattan and Linear Conflict heuristics, and    *)
(* the four search algorithms a_star, ida_star, bfs and dfs, each modelled *)
(* as a state machine whose actions are the iterations of its main loop.   *)
(*                                                                         *)
(* A puzzle state is a tuple; Python index i is TLA+ index i + 1.          *)
(* Python's None is the empty tuple, an optional integer x is <<x>>.       *)
(***************************************************************************)
EXTENDS Integers, Sequences, FiniteSets, TLC

VARIABLES
    board,       \* <<rows, cols>> of the RectPuzzle in use, or <<rows, cols, kind>> (see Kind)
    phase,       \* where the caller is: "scramble", "caller" (between calls), "bfs", "dfs", "ida",
                 \* "astar" (inside that call), "variant" (about to make u), "done"
    s,           \* scramble: the walk's current state
    last_blank,  \* scramble: previous blank index (NoBlank for None)
    steps,       \* scramble: number of slides performed so far
    rng,         \* scramble: what rng.choice will pick in the passes still to come, when the seed is fixed
    inp,         \* the caller's options and the arguments of its calls (see NoInput)
    bfsS,        \* locals of bfs
    dfsS,        \* locals of dfs
    idaS,        \* locals of ida_star
    astarS,      \* locals of a_star
    rec          \* the records returned by the calls on inp.start so far, by algorithm name

vars == <<board, phase, s, last_blank, steps, rng, inp, bfsS, dfsS, idaS, astarS, rec>>

None == <<>>
Some(x) == <<x>>
NoBlank == 0 - 1

Min2(a, b) == IF a < b THEN a ELSE b
Max2(a, b) == IF a > b THEN a ELSE b
Abs(x) == IF x < 0 THEN 0 - x ELSE x

(***************************************************************************)
(* RectPuzzle (src/src/domains/puzzlemn.py).  NPuzzle(n) is the same code  *)
(* with rows = cols = n.                                                   *)
(***************************************************************************)
Rows(b) == b[1]
Cols(b) == b[2]
Size(b) == Rows(b) * Cols(b)

\* self.GOAL = tuple(list(range(1, size)) + [0])
GOAL(b) == [i \in 1..Size(b) |-> IF i < Size(b) THEN i ELSE 0]

\* a faulty move table: the left move is not stopped at column 0, so the
\* blank wraps to the end of the row above
NeiWrap(b, i) ==
    LET r == i \div Cols(b)
        c == i % Cols(b)
    IN  (IF r > 0 THEN <<i - Cols(b)>> ELSE <<>>)
        \o (IF r < Rows(b) - 1 THEN <<i + Cols(b)>> ELSE <<>>)
        \o (IF i > 0 THEN <<i - 1>> ELSE <<>>)
        \o (IF c < Cols(b) - 1 THEN <<i + 1>> ELSE <<>>)

\* self._nei[i]: the blank's moves from cell i, in the order up, down, left, right
Nei(b, i) ==
    LET r == i \div Cols(b)
        c == i % Cols(b)
    IN  (IF r > 0 THEN <<i - Cols(b)>> ELSE <<>>)
        \o (IF r < Rows(b) - 1 THEN <<i + Cols(b)>> ELSE <<>>)
        \o (IF c > 0 THEN <<i - 1>> ELSE <<>>)
        \o (IF c < Cols(b) - 1 THEN <<i + 1>> ELSE <<>>)

\* self._goal_pos[t] = (idx // C, idx % C) with idx = t - 1
GoalRow(b, t) == (t - 1) \div Cols(b)
GoalCol(b, t) == (t - 1) % Cols(b)

\* s.index(0)
BlankIndex(st) == (CHOOSE i \in 1..Len(st) : st[i] = 0) - 1

\* lst[z], lst[j] = lst[j], lst[z]
Swap(st, z, j) == [st EXCEPT ![z + 1] = st[j + 1], ![j + 1] = st[z + 1]]

\* neighbors(s): the list of (next_state, 1), one per move of the blank
neighbors(b, st) ==
    LET z == BlankIndex(st)
        mv == Nei(b, z)
    IN  [k \in 1..Len(mv) |-> <<Swap(st, z, mv[k]), 1>>]

\* the number of inversions among the non-blank tiles, in reading order
Inversions(st) ==
    Cardinality({p \in (1..Len(st)) \X (1..Len(st)) :
                    /\ p[1] < p[2]
                    /\ st[p[1]] # 0
                    /\ st[p[2]] # 0
                    /\ st[p[1]] > st[p[2]]})

\* a faulty is_solvable: the odd-width rule applied to every board
is_solvable_odd_rule(b, st) == Inversions(st) % 2 = 0

\* is_solvable(s): inversion parity, with the blank's row on even widths
is_solvable(b, st) ==
    IF Cols(b) % 2 = 1
    THEN Inversions(st) % 2 = 0
    ELSE LET blank_row_top_idx == BlankIndex(st) \div Cols(b)
             blank_row_from_bottom == Rows(b) - blank_row_top_idx
         IN  (Inversions(st) + blank_row_from_bottom) % 2 = 1

RECURSIVE ManhattanFromWithBlank(_, _, _)
\* a faulty manhattan: the blank is not skipped, its goal is the last cell
ManhattanFromWithBlank(b, st, idx) ==
    IF idx >= Len(st) THEN 0
    ELSE LET t == IF st[idx + 1] = 0 THEN Size(b) ELSE st[idx + 1]
             d == Abs((idx \div Cols(b)) - GoalRow(b, t))
                  + Abs((idx % Cols(b)) - GoalCol(b, t))
         IN  d + ManhattanFromWithBlank(b, st, idx + 1)

RECURSIVE ManhattanFrom(_, _, _)
ManhattanFrom(b, st, idx) ==
    IF idx >= Len(st) THEN 0
    ELSE LET t == st[idx + 1]
             d == IF t = 0 THEN 0
                  ELSE Abs((idx \div Cols(b)) - GoalRow(b, t))
                       + Abs((idx % Cols(b)) - GoalCol(b, t))
         IN  d + ManhattanFrom(b, st, idx + 1)

\* manhattan(s): sum over the tiles of |r - gr| + |c - gc|, blank skipped
manhattan(b, st) == ManhattanFrom(b, st, 0)

\* the pairs (i, j), i < j, of tiles of row r that are in their goal row and
\* whose goal columns are inverted (gi > gj)
RowConflicts(b, st, r) ==
    Cardinality({p \in (0..Cols(b) - 1) \X (0..Cols(b) - 1) :
        LET ti == st[r * Cols(b) + p[1] + 1]
            tj == st[r * Cols(b) + p[2] + 1]
        IN  /\ p[1] < p[2]
            /\ ti # 0 /\ GoalRow(b, ti) = r
            /\ tj # 0 /\ GoalRow(b, tj) = r
            /\ GoalCol(b, ti) > GoalCol(b, tj)})

\* the same for column c
ColConflicts(b, st, c) ==
    Cardinality({p \in (0..Rows(b) - 1) \X (0..Rows(b) - 1) :
        LET ti == st[c + p[1] * Cols(b) + 1]
            tj == st[c + p[2] * Cols(b) + 1]
        IN  /\ p[1] < p[2]
            /\ ti # 0 /\ GoalCol(b, ti) = c
            /\ tj # 0 /\ GoalCol(b, tj) = c
            /\ GoalRow(b, ti) > GoalRow(b, tj)})

RECURSIVE RowConflictsUpTo(_, _, _)
\* for r in range(R): the conflicts of rows 0..r
RowConflictsUpTo(b, st, r) ==
    IF r < 0 THEN 0 ELSE RowConflicts(b, st, r) + RowConflictsUpTo(b, st, r - 1)

RECURSIVE ColConflictsUpTo(_, _, _)
\* for c in range(C): the conflicts of columns 0..c
ColConflictsUpTo(b, st, c) ==
    IF c < 0 THEN 0 ELSE ColConflicts(b, st, c) + ColConflictsUpTo(b, st, c - 1)

\* linear_conflict(s): manhattan(s) + 2 for every conflicting pair
linear_conflict(b, st) ==
    manhattan(b, st)
    + 2 * RowConflictsUpTo(b, st, Rows(b) - 1)
    + 2 * ColConflictsUpTo(b, st, Cols(b) - 1)

(***************************************************************************)
(* NPuzzle(n) (src/src/domains/puzzlen.py): the N x N board, N = n.        *)
(***************************************************************************)
\* self.GOAL = tuple(list(range(1, self.size)) + [0]) with size = n * n
NPuzzle_GOAL(n) == [i \in 1..(n * n) |-> IF i < n * n THEN i ELSE 0]

\* self._nei[i]: r, c = divmod(i, n); the moves up, down, left, right
NPuzzle_nei(n, i) ==
    LET r == i \div n
        c == i % n
    IN  (IF r > 0 THEN <<i - n>> ELSE <<>>)
        \o (IF r < n - 1 THEN <<i + n>> ELSE <<>>)
        \o (IF c > 0 THEN <<i - 1>> ELSE <<>>)
        \o (IF c < n - 1 THEN <<i + 1>> ELSE <<>>)

\* a faulty goal table: the tile number is taken for its goal index
NPuzzle_goal_pos_of_index(n, t) == <<t \div n, t % n>>

\* self._goal_pos[t] = (idx // n, idx % n) with idx = t - 1, as <<row, col>>
NPuzzle_goal_pos(n, t) == <<(t - 1) \div n, (t - 1) % n>>

\* NPuzzle.neighbors(s)
NPuzzle_neighbors(n, st) ==
    LET z == BlankIndex(st)
        mv == NPuzzle_nei(n, z)
    IN  [k \in 1..Len(mv) |-> <<Swap(st, z, mv[k]), 1>>]

\* NPuzzle.is_solvable(s): arr drops the blank, inv counts its inverted pairs
NPuzzle_is_solvable(n, st) ==
    LET arr == SelectSeq(st, LAMBDA x : x # 0)
        inv == Cardinality({p \in (1..Len(arr)) \X (1..Len(arr)) :
                               p[1] < p[2] /\ arr[p[1]] > arr[p[2]]})
    IN  IF n % 2 = 1
        THEN inv % 2 = 0
        ELSE LET blank_row_top_idx == BlankIndex(st) \div n
                 blank_row_from_bottom == n - blank_row_top_idx
             IN  (inv + blank_row_from_bottom) % 2 = 1

RECURSIVE NPuzzle_manhattan_from(_, _, _)
\* the terms of NPuzzle.manhattan for idx, idx + 1, ...
NPuzzle_manhattan_from(n, st, idx) ==
    IF idx >= Len(st) THEN 0
    ELSE LET tile == st[idx + 1]
             g == NPuzzle_goal_pos(n, tile)
             d == IF tile = 0 THEN 0
                  ELSE Abs((idx \div n) - g[1]) + Abs((idx % n) - g[2])
         IN  d + NPuzzle_manhattan_from(n, st, idx + 1)

\* NPuzzle.manhattan(s)
NPuzzle_manhattan(n, st) == NPuzzle_manhattan_from(n, st, 0)

\* the pairs i < j of `tiles`, a list of (position, tile) whose goal
\* coordinate k (1 = row, 2 = column) is inverted: gi > gj
NPuzzle_pairs(n, tiles, k) ==
    Cardinality({p \in (1..Len(tiles)) \X (1..Len(tiles)) :
        /\ p[1] < p[2]
        /\ NPuzzle_goal_pos(n, tiles[p[1]][2])[k]
              > NPuzzle_goal_pos(n, tiles[p[2]][2])[k]})

\* tiles = [(c, t) for c, t in enumerate(row) if t != 0 and goal_pos[t][0] == r]
NPuzzle_row_tiles(n, st, r) ==
    SelectSeq([c \in 1..n |-> <<c - 1, st[r * n + c]>>],
              LAMBDA e : e[2] # 0 /\ NPuzzle_goal_pos(n, e[2])[1] = r)

\* tiles = [(r, t) for r, t in enumerate(col) if t != 0 and goal_pos[t][1] == c]
NPuzzle_col_tiles(n, st, c) ==
    SelectSeq([r \in 1..n |-> <<r - 1, st[c + (r - 1) * n + 1]>>],
              LAMBDA e : e[2] # 0 /\ NPuzzle_goal_pos(n, e[2])[2] = c)

RECURSIVE NPuzzle_conflicts(_, _, _)
\* the conflicting pairs of the rows and of the columns 0..k
NPuzzle_conflicts(n, st, k) ==
    IF k < 0 THEN 0
    ELSE NPuzzle_pairs(n, NPuzzle_row_tiles(n, st, k), 2)
         + NPuzzle_pairs(n, NPuzzle_col_tiles(n, st, k), 1)
         + NPuzzle_conflicts(n, st, k - 1)

\* NPuzzle.linear_conflict(s)
NPuzzle_linear_conflict(n, st) ==
    NPuzzle_manhattan(n, st) + 2 * NPuzzle_conflicts(n, st, n - 1)

(***************************************************************************)
(* puzzle8 (src/src/domains/puzzle8.py): the 3 x 3 board as module-level   *)
(* functions over a fixed move table.                                      *)
(***************************************************************************)
puzzle8_GOAL == <<1, 2, 3, 4, 5, 6, 7, 8, 0>>

\* _NEI: the cells next to cell i, in ascending order
puzzle8_NEI ==
    [i \in 0..8 |->
        CASE i = 0 -> <<1, 3>>
          [] i = 1 -> <<0, 2, 4>>
          [] i = 2 -> <<1, 5>>
          [] i = 3 -> <<0, 4, 6>>
          [] i = 4 -> <<1, 3, 5, 7>>
          [] i = 5 -> <<2, 4, 8>>
          [] i = 6 -> <<3, 7>>
          [] i = 7 -> <<4, 6, 8>>
          [] i = 8 -> <<5, 7>>]

\* puzzle8.neighbors(s)
puzzle8_neighbors(st) ==
    LET i == BlankIndex(st)
        mv == puzzle8_NEI[i]
    IN  [k \in 1..Len(mv) |-> <<Swap(st, i, mv[k]), 1>>]

\* puzzle8.is_solvable(s): the parity of the inversions must be even
puzzle8_is_solvable(st) ==
    LET arr == SelectSeq(st, LAMBDA x : x # 0)
        inv == Cardinality({p \in (1..Len(arr)) \X (1..Len(arr)) :
                               p[1] < p[2] /\ arr[p[1]] > arr[p[2]]})
    IN  inv % 2 = 0

\* _goal_pos = {GOAL[i]: (i // 3, i % 3) for i in range(9)}, as <<row, col>>
puzzle8_goal_pos ==
    [t \in 0..8 |->
        LET i == (CHOOSE k \in 1..9 : puzzle8_GOAL[k] = t) - 1
        IN  <<i \div 3, i % 3>>]

RECURSIVE puzzle8_manhattan_from(_, _)
\* the terms of puzzle8.manhattan for idx, idx + 1, ...
puzzle8_manhattan_from(st, idx) ==
    IF idx >= Len(st) THEN 0
    ELSE LET tile == st[idx + 1]
             d == IF tile = 0 THEN 0
                  ELSE Abs((idx \div 3) - puzzle8_goal_pos[tile][1])
                       + Abs((idx % 3) - puzzle8_goal_pos[tile][2])
         IN  d + puzzle8_manhattan_from(st, idx + 1)

\* puzzle8.manhattan(s)
puzzle8_manhattan(st) == puzzle8_manhattan_from(st, 0)

\* the pairs i < j of `tiles` whose goal coordinate k is inverted: gi > gj
puzzle8_pairs(tiles, k) ==
    Cardinality({p \in (1..Len(tiles)) \X (1..Len(tiles)) :
        /\ p[1] < p[2]
        /\ puzzle8_goal_pos[tiles[p[1]][2]][k] > puzzle8_goal_pos[tiles[p[2]][2]][k]})

\* row = s[3*r:3*r+3]; the tiles of the row that are in their goal row
puzzle8_row_tiles(st, r) ==
    SelectSeq([c \in 1..3 |-> <<c - 1, st[3 * r + c]>>],
              LAMBDA e : e[2] # 0 /\ puzzle8_goal_pos[e[2]][1] = r)

\* col = [s[c + 3*r] for r in range(3)]; the tiles in their goal column
puzzle8_col_tiles(st, c) ==
    SelectSeq([r \in 1..3 |-> <<r - 1, st[c + 3 * (r - 1) + 1]>>],
              LAMBDA e : e[2] # 0 /\ puzzle8_goal_pos[e[2]][2] = c)

RECURSIVE puzzle8_conflicts(_, _)
\* the conflicting pairs of the rows and of the columns 0..k
puzzle8_conflicts(st, k) ==
    IF k < 0 THEN 0
    ELSE puzzle8_pairs(puzzle8_row_tiles(st, k), 2)
         + puzzle8_pairs(puzzle8_col_tiles(st, k), 1)
         + puzzle8_conflicts(st, k - 1)

\* puzzle8.linear_conflict(s)
puzzle8_linear_conflict(st) == puzzle8_manhattan(st) + 2 * puzzle8_conflicts(st, 2)

(***************************************************************************)
(* What a caller hands to a search.  A board <<rows, cols>> is the          *)
(* RectPuzzle(rows, cols) of runner.py --rows --cols.  A third component    *)
(* names another choice of the caller:                                      *)
(*   "npuzzle"  NPuzzle(n) with its own neighbors and heuristics            *)
(*              (visualize_path.py, N # 3);                                 *)
(*   "default"  neighbors_fn = None, so that the searches fall back on      *)
(*              puzzle8.neighbors, with the heuristics of NPuzzle(3) and    *)
(*              GOAL and scramble of puzzle8 (visualize_path.py, N = 3);    *)
(*   "puzzle8"  neighbors_fn = None with GOAL, scramble, is_solvable and    *)
(*              the heuristics of puzzle8 (enhanced_runner.py, N = 3);      *)
(*   "trap"     a neighbor function with dead ends: no transition leaves a  *)
(*              state whose blank is in cell 0.                             *)
(***************************************************************************)
Kind(b) == IF Len(b) = 2 THEN "rect" ELSE b[3]

Trapped(b) == Kind(b) = "trap"

\* neighbors = neighbors_fn or default_neighbors, applied to st
neighbors_fn(b, st) ==
    CASE Kind(b) \in {"default", "puzzle8"} -> puzzle8_neighbors(st)
      [] Kind(b) = "npuzzle" -> NPuzzle_neighbors(Rows(b), st)
      [] Kind(b) = "trap" -> IF BlankIndex(st) = 0 THEN <<>> ELSE neighbors(b, st)
      [] OTHER -> neighbors(b, st)

\* hfun as the caller selects it (runner.choose_domain, visualize_path.main,
\* enhanced_runner.choose_hfun)
hfun(b, hname, st) ==
    CASE Kind(b) \in {"default", "npuzzle"} ->
            IF hname = "manhattan" THEN NPuzzle_manhattan(Rows(b), st)
            ELSE NPuzzle_linear_conflict(Rows(b), st)
      [] Kind(b) = "puzzle8" ->
            IF hname = "manhattan" THEN puzzle8_manhattan(st)
            ELSE puzzle8_linear_conflict(st)
      [] OTHER ->
            IF hname = "manhattan" THEN manhattan(b, st) ELSE linear_conflict(b, st)

\* the goal the caller passes: GOAL of the domain, GOAL8 of puzzle8
goal_of(b) ==
    CASE Kind(b) \in {"default", "puzzle8"} -> puzzle8_GOAL
      [] Kind(b) = "npuzzle" -> NPuzzle_GOAL(Rows(b))
      [] OTHER -> GOAL(b)

\* inst_is_solvable of _gen: is_solvable of the domain, solv8 of puzzle8
solvable_fn(b, st) ==
    CASE Kind(b) = "puzzle8" -> puzzle8_is_solvable(st)
      [] Kind(b) = "npuzzle" -> NPuzzle_is_solvable(Rows(b), st)
      [] OTHER -> is_solvable(b, st)

\* the move table scramble reads: self._nei of the domain, _NEI of puzzle8
MoveTable(b, z) ==
    CASE Kind(b) \in {"default", "puzzle8"} -> puzzle8_NEI[z]
      [] Kind(b) = "npuzzle" -> NPuzzle_nei(Rows(b), z)
      [] OTHER -> Nei(b, z)

(***************************************************************************)
(* Instance generation: scramble (a random walk of the blank from GOAL),   *)
(* and the runner's unsolvable variant.                                    *)
(***************************************************************************)
SeqToSet(q) == {q[k] : k \in 1..Len(q)}

\* a faulty candidate list: the cell the blank came from is kept
ScrambleCandKeepLast(b, z, last) == MoveTable(b, z)

\* cand = list(self._nei[z]); if last_blank in cand and len(cand) > 1: cand.remove(last_blank)
ScrambleCand(b, z, last) ==
    LET cand == MoveTable(b, z)
    IN  IF last \in SeqToSet(cand) /\ Len(cand) > 1
        THEN SelectSeq(cand, LAMBDA j : j # last)
        ELSE cand

\* a faulty variant: the first two cells are swapped, blank or not
make_unsolvable_variant_cells(st) == Swap(st, 0, 1)

\* i = first non-blank index, j = next non-blank index after i; swap them
make_unsolvable_variant(st) ==
    LET nz == {k \in 0..Len(st) - 1 : st[k + 1] # 0}
        i == CHOOSE k \in nz : \A m \in nz : k <= m
        j == CHOOSE k \in nz : k > i /\ \A m \in nz : m > i => k <= m
    IN  Swap(st, i, j)

(***************************************************************************)
(* bfs (src/src/search/bfs.py).  BfsStart is the code before the loop,     *)
(* BfsIter one iteration of `while q`, fired saying whether the deadline   *)
(* has passed when the iteration samples it.                               *)
(***************************************************************************)
Idle == [pc |-> "idle"]

RECURSIVE PathTo(_, _)
\* while s is not None: path.append(s); s = parent[s]   (then reversed)
PathTo(parent, st) ==
    IF st = None THEN <<>> ELSE Append(PathTo(parent, parent[st]), st)

BfsStart(start) ==
    [pc |-> "loop", q |-> <<start>>, parent |-> (start :> None),
     expanded |-> 0, generated |-> 0, seen |-> {start}, peak |-> 1]

BfsRecord(L, path, g, term) ==
    [path |-> path, g |-> g, expanded |-> L.expanded, generated |-> L.generated,
     algorithm |-> "BFS", termination |-> term]

RECURSIVE BfsExpandLifo(_, _, _, _)
\* a faulty expansion: the child is put at the head of the queue
BfsExpandLifo(L, st, nbrs, k) ==
    IF k > Len(nbrs) THEN L
    ELSE LET s2 == nbrs[k][1]
             L1 == [L EXCEPT !.generated = @ + 1]
             L2 == IF s2 \in L1.seen THEN L1
                   ELSE [L1 EXCEPT !.seen = @ \cup {s2},
                                   !.parent = (s2 :> st) @@ @,
                                   !.q = <<s2>> \o @]
         IN  BfsExpandLifo(L2, st, nbrs, k + 1)

RECURSIVE BfsExpandCountNew(_, _, _, _)
\* a faulty expansion: generated counts only the successors not seen before
BfsExpandCountNew(L, st, nbrs, k) ==
    IF k > Len(nbrs) THEN L
    ELSE LET s2 == nbrs[k][1]
             L2 == IF s2 \in L.seen THEN L
                   ELSE [L EXCEPT !.generated = @ + 1,
                                  !.seen = @ \cup {s2},
                                  !.parent = (s2 :> st) @@ @,
                                  !.q = Append(@, s2)]
         IN  BfsExpandCountNew(L2, st, nbrs, k + 1)

RECURSIVE BfsExpand(_, _, _, _)
\* for s2, _ in neighbors_fn(s): generated += 1; if s2 in seen: continue;
\*     seen.add(s2); parent[s2] = s; q.append(s2)
BfsExpand(L, st, nbrs, k) ==
    IF k > Len(nbrs) THEN L
    ELSE LET s2 == nbrs[k][1]
             L1 == [L EXCEPT !.generated = @ + 1]
             L2 == IF s2 \in L1.seen THEN L1
                   ELSE [L1 EXCEPT !.seen = @ \cup {s2},
                                   !.parent = (s2 :> st) @@ @,
                                   !.q = Append(@, s2)]
         IN  BfsExpand(L2, st, nbrs, k + 1)

\* one pass of the loop: the result is either the locals after the pass
\* (pc = "loop") or the returned record (pc = "ret")
BfsIter(b, L, goal, fired) ==
    IF L.q = <<>>
    THEN [pc |-> "ret", ret |-> BfsRecord(L, None, None, "exhausted")]
    ELSE IF fired
    THEN [pc |-> "ret", ret |-> BfsRecord(L, None, None, "timeout")]
    ELSE LET L1 == [L EXCEPT !.peak = Max2(@, Len(L.q)), !.q = Tail(@)]
             st == Head(L.q)
         IN  IF st = goal
             THEN LET path == PathTo(L1.parent, st)
                  IN  [pc |-> "ret",
                       ret |-> BfsRecord(L1, path, Some(Len(path) - 1), "ok")]
             ELSE BfsExpand([L1 EXCEPT !.expanded = @ + 1], st, neighbors_fn(b, st), 1)

(***************************************************************************)
(* a_star (src/src/search/a_star.py).  items holds every PQItem created,   *)
(* in creation order; a PQItem's parent is the index of its parent item (0 *)
(* for None).  open_heap holds the heap's entries (priority_tuple, ctr,    *)
(* item) in ascending order, so heappop takes the first one.               *)
(***************************************************************************)
Infinity == 1000000

\* priority_tuple(f, g, h, ctr)
\* a faulty priority: the heap is ordered by h first, g + h only breaking ties
priority_tuple_greedy(tie_break, f, g, h, ctr) ==
    IF tie_break = "lifo" THEN <<h, f, 0 - ctr>> ELSE <<h, f, ctr>>

\* a faulty priority: under "g" the smaller g is preferred
priority_tuple_small_g(tie_break, f, g, h, ctr) ==
    IF tie_break = "h" THEN <<f, h, ctr>>
    ELSE IF tie_break = "g" THEN <<f, g, ctr>>
    ELSE IF tie_break = "fifo" THEN <<f, 0, ctr>>
    ELSE IF tie_break = "lifo" THEN <<f, 0, 0 - ctr>>
    ELSE <<f, h, ctr>>

priority_tuple(tie_break, f, g, h, ctr) ==
    IF tie_break = "h" THEN <<f, h, ctr>>
    ELSE IF tie_break = "g" THEN <<f, 0 - g, ctr>>
    ELSE IF tie_break = "fifo" THEN <<f, 0, ctr>>
    ELSE IF tie_break = "lifo" THEN <<f, 0, 0 - ctr>>
    ELSE <<f, h, ctr>>

\* Python's tuple order on heap entries (priority_tuple, ctr, item)
EntryLess(a, e) ==
    \/ a.pr[1] < e.pr[1]
    \/ a.pr[1] = e.pr[1] /\ a.pr[2] < e.pr[2]
    \/ a.pr[1] = e.pr[1] /\ a.pr[2] = e.pr[2] /\ a.pr[3] < e.pr[3]
    \/ a.pr = e.pr /\ a.ctr < e.ctr

\* heapq.heappush(open_heap, entry)
heappush(heap, entry) ==
    SelectSeq(heap, LAMBDA e : EntryLess(e, entry))
    \o <<entry>>
    \o SelectSeq(heap, LAMBDA e : ~EntryLess(e, entry))

RECURSIVE reconstruct_path_unreversed(_, _)
\* a faulty reconstruction: path.reverse() is left out
reconstruct_path_unreversed(items, node) ==
    IF node = 0 THEN <<>>
    ELSE <<items[node].state>> \o reconstruct_path_unreversed(items, items[node].parent)

RECURSIVE reconstruct_path(_, _)
\* while node is not None: path.append(node.state); node = node.parent  (then reversed)
reconstruct_path(items, node) ==
    IF node = 0 THEN <<>>
    ELSE Append(reconstruct_path(items, items[node].parent), items[node].state)

\* closed_g is a history of closed, not a local of a_star: the g of the node
\* with which each closed state was expanded
AStarStart(b, in) ==
    LET h0 == hfun(b, in.hname, in.start)
        start_item == [f |-> h0, h |-> h0, g |-> 0, state |-> in.start, parent |-> 0]
    IN  [pc |-> "loop",
         items |-> <<start_item>>,
         open_heap |-> <<[pr |-> priority_tuple(in.tie_break, h0, 0, h0, 0),
                          ctr |-> 1, node |-> 1]>>,
         counter |-> 2,
         best_g |-> (in.start :> 0),
         closed |-> {},
         closed_g |-> <<>>,
         expanded |-> 0, generated |-> 0, duplicates |-> 0,
         seen_ever |-> {in.start},
         peak_open |-> 1, peak_closed |-> 0]

AStarRecord(L, in, path, g, term) ==
    [path |-> path, g |-> g,
     expanded |-> L.expanded, generated |-> L.generated, duplicates |-> L.duplicates,
     peak_open |-> L.peak_open, peak_closed |-> L.peak_closed,
     algorithm |-> "A*", tie_break |-> in.tie_break, termination |-> term]

\* if g2 < best_g.get(s2, math.inf)
AStarImproves(L, s2, g2) ==
    g2 < (IF s2 \in DOMAIN L.best_g THEN L.best_g[s2] ELSE Infinity)

RECURSIVE AStarExpand(_, _, _, _, _, _)
\* the body of `for s2, c in neighbors(node.state)`, from the k-th neighbour on
AStarExpand(b, in, L, node, nbrs, k) ==
    IF k > Len(nbrs) THEN L
    ELSE LET s2 == nbrs[k][1]
             c  == nbrs[k][2]
             g2 == L.items[node].g + c
             h2 == hfun(b, in.hname, s2)
             f2 == g2 + h2
             L1 == [L EXCEPT !.generated = @ + 1,
                             !.duplicates = IF s2 \in L.seen_ever THEN @ + 1 ELSE @,
                             !.seen_ever = @ \cup {s2}]
             child == [f |-> f2, h |-> h2, g |-> g2, state |-> s2, parent |-> node]
             pr == priority_tuple(in.tie_break, f2, g2, h2, L1.counter)
             L2 == IF AStarImproves(L1, s2, g2)
                   THEN [L1 EXCEPT !.best_g = (s2 :> g2) @@ @,
                                   !.items = Append(@, child),
                                   !.open_heap = heappush(@, [pr |-> pr,
                                                              ctr |-> L1.counter + 1,
                                                              node |-> Len(L1.items) + 1]),
                                   !.counter = @ + 2]
                   ELSE L1
         IN  AStarExpand(b, in, L2, node, nbrs, k + 1)

\* one pass of `while open_heap`
AStarIter(b, L, in, fired) ==
    IF L.open_heap = <<>>
    THEN [pc |-> "ret", ret |-> AStarRecord(L, in, None, None, "exhausted")]
    ELSE IF fired
    THEN [pc |-> "ret", ret |-> AStarRecord(L, in, None, None, "timeout")]
    ELSE LET node == Head(L.open_heap).node
             st == L.items[node].state
             L1 == [L EXCEPT !.peak_open = Max2(@, Len(L.open_heap)),
                             !.open_heap = Tail(@)]
         IN  IF st \in L1.closed THEN L1
             ELSE IF st = in.goal
             THEN [pc |-> "ret",
                   ret |-> AStarRecord(L1, in,
                              IF in.return_path THEN reconstruct_path(L1.items, node)
                              ELSE None,
                              Some(L1.items[node].g), "ok")]
             ELSE LET L2 == [L1 EXCEPT !.closed = @ \cup {st},
                                       !.closed_g = (st :> L1.items[node].g) @@ @,
                                       !.expanded = @ + 1,
                                       !.peak_closed = Max2(@, Cardinality(L1.closed) + 1)]
                  IN  AStarExpand(b, in, L2, node, neighbors_fn(b, st), 1)

(***************************************************************************)
(* ida_star (src/src/search/ida_star.py).  The recursion of the inner dfs  *)
(* is kept as an explicit stack of frames, one per active call, innermost  *)
(* last; a frame holds the call's arguments and locals and idx, the        *)
(* position of the next successor in the enumeration of its neighbours.    *)
(* A numeric return value is an integer (math.inf is Infinity, the found   *)
(* sentinel is -1); TIMEOUT is handled apart.                              *)
(***************************************************************************)
Found == 0 - 1

RECURSIVE ida_reconstruct_path(_, _)
\* while s is not None: path.append(s); s = parents.get(s)   (then reversed)
ida_reconstruct_path(parents, st) ==
    IF st = None THEN <<>>
    ELSE Append(ida_reconstruct_path(parents,
                    IF st \in DOMAIN parents THEN parents[st] ELSE None), st)

\* iter_min and iter_lost are histories of the current iteration, not locals
\* of ida_star: iter_min is the least number a call of dfs has returned for a
\* node over the bound; iter_lost tells whether an early cutoff has returned
\* g + h_parent from a call whose min_next was smaller
\* a faulty start: the first bound is two over hfun(start)
IdaStartHighBound(b, in) ==
    LET h0 == hfun(b, in.hname, in.start)
    IN  [pc |-> "outer",
         expanded |-> 0, generated |-> 0, duplicates |-> 0,
         ever_seen |-> {in.start},
         parents |-> (in.start :> None),
         max_depth |-> 0,
         solution_g |-> None,
         h0 |-> h0,
         bound |-> h0 + 2,
         iter_min |-> Infinity,
         iter_lost |-> FALSE,
         pathset |-> {},
         stack |-> <<>>]

IdaStart(b, in) ==
    LET h0 == hfun(b, in.hname, in.start)
    IN  [pc |-> "outer",
         expanded |-> 0, generated |-> 0, duplicates |-> 0,
         ever_seen |-> {in.start},
         parents |-> (in.start :> None),
         max_depth |-> 0,
         solution_g |-> None,
         h0 |-> h0,
         bound |-> h0,
         iter_min |-> Infinity,
         iter_lost |-> FALSE,
         pathset |-> {},
         stack |-> <<>>]

\* a faulty record: when no path was found the last bound is reported as g
IdaRecordBoundAsCost(L, in, path, g, term) ==
    [path |-> path, g |-> IF g = None THEN Some(L.bound) ELSE g,
     expanded |-> L.expanded, generated |-> L.generated, duplicates |-> L.duplicates,
     peak_recursion |-> L.max_depth, bound_final |-> L.bound,
     algorithm |-> IF in.use_bpmx THEN "IDA* (BPMX ON)" ELSE "IDA*",
     termination |-> term]

\* a faulty record: a search that found no path is reported as timed out
IdaRecordNoPathAsTimeout(L, in, path, g, term) ==
    [path |-> path, g |-> g,
     expanded |-> L.expanded, generated |-> L.generated, duplicates |-> L.duplicates,
     peak_recursion |-> L.max_depth, bound_final |-> L.bound,
     algorithm |-> IF in.use_bpmx THEN "IDA* (BPMX ON)" ELSE "IDA*",
     termination |-> IF g = None THEN "timeout" ELSE term]

IdaRecord(L, in, path, g, term) ==
    [path |-> path, g |-> g,
     expanded |-> L.expanded, generated |-> L.generated, duplicates |-> L.duplicates,
     peak_recursion |-> L.max_depth, bound_final |-> L.bound,
     algorithm |-> IF in.use_bpmx THEN "IDA* (BPMX ON)" ELSE "IDA*",
     termination |-> term]

\* a faulty return: the caller leaves the successor in pathset
IdaDeliverKeepCallee(L, in, v, callee) ==
    IF L.stack = <<>>
    THEN IF v = Found
         THEN [pc |-> "ret",
               ret |-> IdaRecord(L, in,
                          IF in.return_path THEN ida_reconstruct_path(L.parents, in.goal)
                          ELSE None,
                          L.solution_g, "ok")]
         ELSE IF v = Infinity
         THEN [pc |-> "ret", ret |-> IdaRecord(L, in, None, None, "exhausted")]
         ELSE [L EXCEPT !.bound = v, !.pc = "outer"]
    ELSE IF v = Found
         THEN [L EXCEPT !.pc = "found"]
         ELSE [L EXCEPT !.stack[Len(L.stack)].min_next = Min2(@, v)]

\* the call dfs(callee, ...) returned the number v to its caller: the frame on
\* top of L.stack, or the outer loop when the stack is empty
IdaDeliver(L, in, v, callee) ==
    IF L.stack = <<>>
    THEN \* t = dfs(start, 0, bound, h0, 0, pathset) in the outer loop
         IF v = Found
         THEN [pc |-> "ret",
               ret |-> IdaRecord(L, in,
                          IF in.return_path THEN ida_reconstruct_path(L.parents, in.goal)
                          ELSE None,
                          L.solution_g, "ok")]
         ELSE IF v = Infinity
         THEN [pc |-> "ret", ret |-> IdaRecord(L, in, None, None, "exhausted")]
         ELSE [L EXCEPT !.bound = v, !.pc = "outer"]
    ELSE \* t = dfs(s2, g2, bound, h2, depth + 1, pathset) in the loop over children
         IF v = Found
         THEN [L EXCEPT !.pc = "found"]
         ELSE [L EXCEPT !.stack[Len(L.stack)].min_next = Min2(@, v),
                        !.pathset = @ \ {callee}]

RECURSIVE IdaUnwind(_, _)
\* `if t == -1: return -1` in every caller, up to the outer loop
IdaUnwind(L, in) ==
    IF L.stack = <<>> THEN IdaDeliver(L, in, Found, in.start)
    ELSE IdaUnwind([L EXCEPT !.stack = SubSeq(@, 1, Len(@) - 1)], in)

\* a faulty entry: a node is cut off when f_here >= bound
IdaEnterCutAtBound(L, in, state, g, h_s, depth, fired) ==
    IF fired
    THEN \* return TIMEOUT, and so does every caller
         [pc |-> "ret", ret |-> IdaRecord(L, in, None, None, "timeout")]
    ELSE LET L1 == [L EXCEPT !.max_depth = Max2(@, depth)]
             f_here == g + h_s
         IN  IF f_here >= L1.bound
             THEN LET D == IdaDeliver([L1 EXCEPT !.iter_min = Min2(@, f_here)],
                                      in, f_here, state)
                  IN  IF D.pc = "found" THEN IdaUnwind(D, in) ELSE D
             ELSE IF state = in.goal
             THEN IdaUnwind([L1 EXCEPT !.solution_g = Some(g)], in)
             ELSE [L1 EXCEPT !.expanded = @ + 1,
                             !.pc = "dfs",
                             !.stack = Append(@, [state |-> state, g |-> g, h_s |-> h_s,
                                                  depth |-> depth, min_next |-> Infinity,
                                                  h_parent |-> h_s, idx |-> 1])]

\* entry of dfs(state, g, bound, h_s, depth, pathset), up to the loop over children
IdaEnter(L, in, state, g, h_s, depth, fired) ==
    IF fired
    THEN \* return TIMEOUT, and so does every caller
         [pc |-> "ret", ret |-> IdaRecord(L, in, None, None, "timeout")]
    ELSE LET L1 == [L EXCEPT !.max_depth = Max2(@, depth)]
             f_here == g + h_s
         IN  IF f_here > L1.bound
             THEN LET D == IdaDeliver([L1 EXCEPT !.iter_min = Min2(@, f_here)],
                                      in, f_here, state)
                  IN  IF D.pc = "found" THEN IdaUnwind(D, in) ELSE D
             ELSE IF state = in.goal
             THEN IdaUnwind([L1 EXCEPT !.solution_g = Some(g)], in)
             ELSE [L1 EXCEPT !.expanded = @ + 1,
                             !.pc = "dfs",
                             !.stack = Append(@, [state |-> state, g |-> g, h_s |-> h_s,
                                                  depth |-> depth, min_next |-> Infinity,
                                                  h_parent |-> h_s, idx |-> 1])]

\* the position of the first successor from idx on that is not on the path
\* (`if s2 in pathset: continue`), Len(nbrs) + 1 when there is none
RECURSIVE IdaNextChild(_, _, _)
IdaNextChild(nbrs, pathset, idx) ==
    IF idx > Len(nbrs) THEN idx
    ELSE IF nbrs[idx][1] \in pathset THEN IdaNextChild(nbrs, pathset, idx + 1)
    ELSE idx

\* the innermost call returns the number v
IdaReturn(L, in, v) ==
    LET F == L.stack[Len(L.stack)]
        D == IdaDeliver([L EXCEPT !.stack = SubSeq(@, 1, Len(@) - 1)], in, v, F.state)
    IN  IF D.pc = "found" THEN IdaUnwind(D, in) ELSE D

\* a faulty raise: the parent's h is never raised
BpmxNoRaise(h_parent, h2_raw, c) == h_parent

\* child -> parent raise: the parent's h after seeing a child of raw value h2_raw over an edge c
BpmxRaise(h_parent, h2_raw, c) ==
    IF h2_raw - c > h_parent THEN h2_raw - c ELSE h_parent

\* parent -> child bump: h2 = max(h2_raw, h_parent - c)
BpmxBump(h_parent, h2_raw, c) == Max2(h2_raw, h_parent - c)

\* one step of the innermost call: take its next successor that is off the
\* path and call dfs on it, or return when the successors are used up
IdaStep(b, L, in, fired) ==
    LET F == L.stack[Len(L.stack)]
        nbrs == neighbors_fn(b, F.state)
        k == IdaNextChild(nbrs, L.pathset, F.idx)
    IN  IF k > Len(nbrs) THEN IdaReturn(L, in, F.min_next)
        ELSE LET s2 == nbrs[k][1]
                 c == nbrs[k][2]
                 g2 == F.g + c
                 h2_raw == hfun(b, in.hname, s2)
                 h_parent == IF in.use_bpmx THEN BpmxRaise(F.h_parent, h2_raw, c)
                             ELSE F.h_parent
                 h2 == IF in.use_bpmx THEN BpmxBump(h_parent, h2_raw, c) ELSE h2_raw
             IN  IF in.use_bpmx /\ h_parent > F.h_parent /\ F.g + h_parent > L.bound
                 THEN \* early cutoff: return g + h_parent
                      IdaReturn([L EXCEPT !.iter_min = Min2(@, F.g + h_parent),
                                          !.iter_lost = @ \/ F.min_next < F.g + h_parent],
                                in, F.g + h_parent)
                 ELSE LET L1 == [L EXCEPT
                                   !.generated = @ + 1,
                                   !.duplicates = IF s2 \in L.ever_seen THEN @ + 1 ELSE @,
                                   !.ever_seen = @ \cup {s2},
                                   !.parents = (s2 :> F.state) @@ @,
                                   !.pathset = @ \cup {s2},
                                   !.stack[Len(L.stack)].idx = k + 1,
                                   !.stack[Len(L.stack)].h_parent = h_parent]
                      IN  IdaEnter(L1, in, s2, g2, h2, F.depth + 1, fired)

\* one pass of `while True`: pathset = {start}; t = dfs(start, 0, bound, h0, 0, pathset)
IdaOuter(L, in, fired) ==
    IdaEnter([L EXCEPT !.pathset = {in.start}, !.iter_min = Infinity,
                       !.iter_lost = FALSE],
             in, in.start, 0, L.h0, 0, fired)

(***************************************************************************)
(* dfs (src/src/search/dfs.py).  A stack entry is (state, depth, iterator, *)
(* expanded_flag); the iterator over neighbors_fn(state) is the position   *)
(* it of the next successor it will yield.                                 *)
(***************************************************************************)
\* bound_final: "" if max_depth is None else max_depth.  The empty string is
\* the empty sequence <<>>, and the bound m is written <<m>>, so that the
\* field holds values of one kind
DfsBoundFinal(in) == IF in.max_depth = None THEN <<>> ELSE <<in.max_depth[1]>>

DfsRecord(L, in, g, term) ==
    [path |-> None, g |-> g,
     expanded |-> L.expanded, generated |-> L.generated, duplicates |-> L.duplicates,
     peak_recursion |-> L.peak_depth, bound_final |-> DfsBoundFinal(in),
     algorithm |-> "DFS", termination |-> term]

\* a faulty start: the start state is stacked but not put in on_path
DfsStartOffPath(in) ==
    [pc |-> "loop",
     expanded |-> 0, generated |-> 0, duplicates |-> 0, peak_depth |-> 0,
     stack |-> <<[state |-> in.start, d |-> 0, it |-> 1, did_expand |-> FALSE]>>,
     on_path |-> {},
     left |-> {}]

DfsStart(in) ==
    LET L == [pc |-> "loop",
              expanded |-> 0, generated |-> 0, duplicates |-> 0, peak_depth |-> 0,
              stack |-> <<[state |-> in.start, d |-> 0, it |-> 1, did_expand |-> FALSE]>>,
              on_path |-> {in.start},
              left |-> {}]
    IN  IF in.start = in.goal
        THEN [pc |-> "ret", ret |-> DfsRecord(L, in, Some(0), "ok")]
        ELSE L

\* a faulty depth test: the bound is applied to the parent's depth
depth_bound_on_parent(in, d) == in.max_depth # None /\ d > in.max_depth[1]

\* enforce depth bound on the child: (max_depth is not None) and (d + 1 > max_depth)
depth_bound(in, d) == in.max_depth # None /\ d + 1 > in.max_depth[1]

\* one pass of `while stack`; `left` is a history of the loop, not a local of
\* the code: the (state, depth) pairs that on_path.remove / stack.pop took off
DfsIter(b, L, in, fired) ==
    IF L.stack = <<>>
    THEN [pc |-> "ret", ret |-> DfsRecord(L, in, None, "exhausted")]
    ELSE IF fired
    THEN [pc |-> "ret", ret |-> DfsRecord(L, in, None, "timeout")]
    ELSE LET n == Len(L.stack)
             top == L.stack[n]
             nbrs == neighbors_fn(b, top.state)
             L1 == [L EXCEPT !.peak_depth = Max2(@, top.d)]
         IN  IF top.it > Len(nbrs)
             THEN \* StopIteration: done with s
                  [L1 EXCEPT !.on_path = @ \ {top.state},
                             !.stack = SubSeq(@, 1, n - 1),
                             !.left = @ \cup {<<top.state, top.d>>}]
             ELSE LET s2 == nbrs[top.it][1]
                      L2 == [L1 EXCEPT !.stack[n].it = @ + 1]
                  IN  IF depth_bound(in, top.d)
                      THEN L2
                      ELSE IF s2 \in L2.on_path
                      THEN [L2 EXCEPT !.duplicates = @ + 1]
                      ELSE LET L3 == [L2 EXCEPT
                                        !.expanded = IF top.did_expand THEN @ ELSE @ + 1,
                                        !.stack[n].did_expand = TRUE,
                                        !.generated = @ + 1]
                           IN  IF s2 = in.goal
                               THEN [pc |-> "ret",
                                     ret |-> DfsRecord(L3, in, Some(top.d + 1), "ok")]
                               ELSE [L3 EXCEPT
                                       !.on_path = @ \cup {s2},
                                       !.stack = Append(@, [state |-> s2, d |-> top.d + 1,
                                                            it |-> 1, did_expand |-> FALSE])]

(***************************************************************************)
(* The callers.  runner.main (src/src/experiments/runner.py) parses its    *)
(* command line, makes the instances by scramble and, for each instance,   *)
(* calls the searches that --algo asks for in the order a_star, ida_star,  *)
(* bfs, dfs: first on inst.state and then, with --include_unsolvable, in   *)
(* the same order on the unsolvable variant u.  Every call of a run gets   *)
(* the options of the command line.  A behaviour follows main through the *)
(* blocks of calls of one instance; rec holds the records the calls of     *)
(* the current block have returned.  visualize_path.main makes one call    *)
(* of a_star or ida_star on a scrambled state, with return_path = True.    *)
(***************************************************************************)
MaxScramble == 12
MaxScrambleLarge == 5
MaxVisualizeScramble == 8
MaxTimedScramble == 2
MaxDfsDepth == 3
MaxTimedCalls == 2
MaxVariantSize == 6
MaxVariantSizeIda == 4
MaxUnboundedDfsSize == 4
MaxWalk == 22
MaxWalkLarge == 20

Boards == {<<2, 2>>, <<2, 3>>, <<3, 3>>}
VisualizeBoards == {<<2, 2, "npuzzle">>, <<3, 3, "default">>}
EnhancedBoards == {<<2, 2, "npuzzle">>, <<3, 3, "puzzle8">>}
WalkBoards == {<<2, 2>>, <<2, 3>>, <<3, 2>>, <<2, 4>>, <<4, 2>>, <<3, 3>>}
TrapBoards == {<<2, 2, "trap">>}
Heuristics == {"manhattan", "linear_conflict"}
\* --tie_break choices
TieBreaks == {"h", "g", "fifo", "lifo"}
\* --algo choices
Algos == {"a", "ida", "bfs", "dfs", "both", "all"}
\* --algo choices of enhanced_runner
EnhancedAlgos == {"a", "ida", "both"}

\* how far the walk of an instance may go on board b
ScrambleCap(b) ==
    IF Kind(b) = "default" THEN MaxVisualizeScramble
    ELSE IF Size(b) <= 6 THEN MaxScramble ELSE MaxScrambleLarge
WalkCap(b) == IF Size(b) <= 6 THEN MaxWalk ELSE MaxWalkLarge

\* RectPuzzle(2, 4).scramble(depth, seed) with rng = random.Random(seed): what
\* rng.choice(cand) returns in each of the depth passes, as its position in cand
SeededScrambles ==
    { [board |-> <<2, 4>>, depth |-> 15, seed |-> 2539,
       choices |-> <<2, 1, 1, 2, 1, 1, 2, 2, 1, 1, 2, 1, 2, 1, 1>>],
      [board |-> <<2, 4>>, depth |-> 19, seed |-> 348,
       choices |-> <<2, 1, 1, 1, 2, 2, 1, 1, 2, 1, 2, 2, 1, 1, 1, 1, 2, 1, 1>>] }

\* RectPuzzle(4, 2).scramble(depth, seed), likewise
SeededScramblesTall ==
    { [board |-> <<4, 2>>, depth |-> 23, seed |-> 8861,
       choices |-> <<2, 1, 2, 1, 2, 1, 1, 1, 1, 2, 1, 1, 1, 1, 1, 2, 2, 1, 1, 1, 2, 2, 1>>],
      [board |-> <<4, 2>>, depth |-> 24, seed |-> 5013,
       choices |-> <<2, 1, 2, 2, 1, 1, 2, 1, 1, 1, 1, 1, 1, 1, 1, 1, 2, 1, 1, 1, 1, 2,
                     1, 1>>] }

\* the inputs of the calls before a caller has set them: the start and goal,
\* the solvable flag of the block, the options, and at, the place in Order
\* of the next call the caller considers
NoInput ==
    [start |-> None, goal |-> None, solvable |-> TRUE, algo |-> "",
     include_unsolvable |-> FALSE, rerun |-> FALSE,
     hname |-> "", tie_break |-> "", use_bpmx |-> FALSE, return_path |-> FALSE,
     timeout_sec |-> None, max_depth |-> None, at |-> 1]

\* the calls are given a timeout
Timed(in) == in.timeout_sec # None

\* whether the deadline has passed when a sampling point looks at the clock
\* a faulty deadline: it can fire in a call that was given no timeout
FiredWithoutTimeout(in) == {FALSE, TRUE}

Fired(in) == IF in.timeout_sec = None THEN {FALSE} ELSE {FALSE, TRUE}

\* scramble starts: s = self.GOAL; last_blank = None; nothing has been searched
Fresh(b, choices) ==
    /\ board = b
    /\ phase = "scramble"
    /\ s = goal_of(b)
    /\ last_blank = NoBlank
    /\ steps = 0
    /\ rng = choices
    /\ inp = NoInput
    /\ bfsS = Idle
    /\ dfsS = Idle
    /\ idaS = Idle
    /\ astarS = Idle
    /\ rec = <<>>

Init == \E b \in Boards \cup VisualizeBoards \cup EnhancedBoards : Fresh(b, <<>>)

\* one pass of scramble's loop: j = rng.choice(cand); swap; last_blank = z
ScrambleStep(cap) ==
    /\ phase = "scramble"
    /\ steps < cap
    /\ LET z == BlankIndex(s)
           cand == ScrambleCand(board, z, last_blank)
       IN  \E k \in 1..Len(cand) :
              /\ s' = Swap(s, z, cand[k])
              /\ last_blank' = z
    /\ steps' = steps + 1
    /\ UNCHANGED <<board, rng, phase, inp, bfsS, dfsS, idaS, astarS, rec>>

Scramble == ScrambleStep(ScrambleCap(board))

Walk == ScrambleStep(WalkCap(board))

\* the same pass under a fixed seed: rng.choice returns the next outcome of the stream
SeededScramble ==
    /\ phase = "scramble"
    /\ rng # <<>>
    /\ LET z == BlankIndex(s)
           cand == ScrambleCand(board, z, last_blank)
       IN  /\ s' = Swap(s, z, cand[Head(rng)])
           /\ last_blank' = z
    /\ steps' = steps + 1
    /\ rng' = Tail(rng)
    /\ UNCHANGED <<board, phase, inp, bfsS, dfsS, idaS, astarS, rec>>

\* want_a, want_ida, want_bfs, want_dfs
Wanted(in, algo) ==
    CASE algo = "astar" -> in.algo \in {"a", "both", "all"}
      [] algo = "ida" -> in.algo \in {"ida", "both", "all"}
      [] algo = "bfs" -> in.algo \in {"bfs", "all"}
      [] algo = "dfs" -> in.algo \in {"dfs", "all"}

\* the order of the calls in a block of main
Order == <<"astar", "ida", "bfs", "dfs">>
Place(algo) == CHOOSE k \in 1..Len(Order) : Order[k] = algo

\* the place of the call the caller makes next, Len(Order) + 1 when none is left
NextCall(in) ==
    LET due == {k \in in.at..Len(Order) : Wanted(in, Order[k])}
    IN  IF due = {} THEN Len(Order) + 1
        ELSE CHOOSE k \in due : \A m \in due : k <= m

\* the caller's next call is the one of algo
MayCall(in, algo) == NextCall(in) = Place(algo)

\* the block has made all its calls
SessionOver(in) == NextCall(in) > Len(Order)

\* the number of calls in a block of a run with --algo algo
Calls(algo) ==
    Cardinality({k \in 1..Len(Order) : Wanted([NoInput EXCEPT !.algo = algo], Order[k])})

\* ida_star is among the calls of --algo algo
WithIda(algo) == Wanted([NoInput EXCEPT !.algo = algo], "ida")

\* --timeout_sec as taken for an instance of board b at scramble depth
\* `depth`: none, or one second on a shallow instance in a run of few calls
Timeouts(b, depth, algo) ==
    {None} \cup (IF depth <= MaxTimedScramble /\ Calls(algo) <= MaxTimedCalls
                 THEN {Some(1)} ELSE {})

\* --include_unsolvable as taken: on shallow instances of boards of at most
\* MaxVariantSize cells, MaxVariantSizeIda when ida_star is to run on u
IncludeUnsolvable(b, depth, algo) ==
    {FALSE} \cup (IF /\ depth <= MaxTimedScramble
                     /\ Size(b) <= (IF WithIda(algo) THEN MaxVariantSizeIda ELSE MaxVariantSize)
                  THEN {TRUE} ELSE {})

\* runner.main: _gen has kept the scrambled state (it is solvable) and main
\* enters the block of calls on inst.state.  --algo, --timeout_sec and
\* --include_unsolvable are read here; an option that one call reads
\* (--heuristic, --tie_break, --bpmx, --dfs_max_depth) is drawn at the first
\* call that reads it and stays for the run.
Begin ==
    /\ phase = "scramble"
    /\ rng = <<>>
    /\ Kind(board) \in {"rect", "trap"}
    /\ is_solvable(board, s)
    /\ \E algo \in Algos :
       \E to \in Timeouts(board, steps, algo), variant \in IncludeUnsolvable(board, steps, algo) :
          inp' = [NoInput EXCEPT
                     !.start = s,
                     !.goal = GOAL(board),
                     !.algo = algo,
                     !.include_unsolvable = variant,
                     !.timeout_sec = to]
    /\ phase' = "caller"
    /\ s' = GOAL(board)
    /\ last_blank' = NoBlank
    /\ steps' = 0
    /\ UNCHANGED <<board, rng, bfsS, dfsS, idaS, astarS, rec>>

\* the same with --algo ida on the command line
BeginIda == Begin /\ inp'.algo = "ida"

\* visualize_path.main: start = scramble(depth, seed), then one call of
\* a_star (tie_break "h") or ida_star, with return_path = True and no timeout
BeginVisualize ==
    /\ phase = "scramble"
    /\ rng = <<>>
    /\ board \in VisualizeBoards
    /\ \E algo \in {"a", "ida"} :
          inp' = [NoInput EXCEPT
                     !.start = s,
                     !.goal = goal_of(board),
                     !.algo = algo,
                     !.tie_break = "h",
                     !.return_path = TRUE]
    /\ phase' = "caller"
    /\ s' = goal_of(board)
    /\ last_blank' = NoBlank
    /\ steps' = 0
    /\ UNCHANGED <<board, rng, bfsS, dfsS, idaS, astarS, rec>>

\* enhanced_runner.main: _gen has kept the scrambled state (it is solvable)
\* and main calls a_star and ida_star on it as --algo asks, with
\* return_path = False and no timeout; --heuristic, --tie_break and --bpmx
\* are drawn at the first call that reads them
BeginEnhanced ==
    /\ phase = "scramble"
    /\ rng = <<>>
    /\ board \in EnhancedBoards
    /\ solvable_fn(board, s)
    /\ \E algo \in EnhancedAlgos :
          inp' = [NoInput EXCEPT
                     !.start = s,
                     !.goal = goal_of(board),
                     !.algo = algo]
    /\ phase' = "caller"
    /\ s' = goal_of(board)
    /\ last_blank' = NoBlank
    /\ steps' = 0
    /\ UNCHANGED <<board, rng, bfsS, dfsS, idaS, astarS, rec>>

\* where main goes once the call before place in.at has returned: to the
\* next call of the block, to the block on u, or to the end of the instance
After(in) ==
    IF ~SessionOver(in) THEN "caller"
    ELSE IF in.include_unsolvable /\ in.solvable THEN "variant"
    ELSE "done"

\* the call of algo returned R: the caller keeps the record under label and
\* moves on
Return(algo, label, R) ==
    /\ rec' = (label :> R.ret) @@ rec
    /\ inp' = [inp EXCEPT !.at = Place(algo) + 1]
    /\ phase' = After(inp')

\* if args.include_unsolvable: u = make_unsolvable_variant(inst.state), and
\* the block of calls starts again on u, with the same options; rec turns
\* to the records of the calls on u
BeginVariant ==
    /\ phase = "variant"
    /\ inp' = [inp EXCEPT
                  !.start = make_unsolvable_variant(inp.start),
                  !.solvable = FALSE,
                  !.at = 1]
    /\ rec' = <<>>
    /\ phase' = "caller"
    /\ UNCHANGED <<board, rng, s, last_blank, steps, bfsS, dfsS, idaS, astarS>>

\* the call of this label has returned and its record is kept
Ran(label) == label \in DOMAIN rec

StartCall(algo) ==
    /\ phase = "caller"
    /\ MayCall(inp, algo)

----
\* bfs(start, goal, neighbors_fn=neighbors_fn, timeout_sec=args.timeout_sec)
CallBfs ==
    /\ StartCall("bfs")
    /\ bfsS' = BfsStart(inp.start)
    /\ phase' = "bfs"
    /\ UNCHANGED <<board, rng, s, last_blank, steps, inp, dfsS, idaS, astarS, rec>>

BfsLoop ==
    /\ phase = "bfs"
    /\ \E fired \in Fired(inp) :
          LET R == BfsIter(board, bfsS, inp.goal, fired)
          IN  IF R.pc = "ret"
              THEN /\ bfsS' = Idle
                   /\ Return("bfs", "bfs", R)
              ELSE /\ bfsS' = R
                   /\ UNCHANGED <<inp, rec, phase>>
    /\ UNCHANGED <<board, rng, s, last_blank, steps, dfsS, idaS, astarS>>

\* dfs(start, goal, neighbors_fn=neighbors_fn, max_depth=args.dfs_max_depth,
\*     timeout_sec=args.timeout_sec)
\* --dfs_max_depth as taken: a bound, or None (the default) on a board of at
\* most MaxUnboundedDfsSize cells, where the walk of simple paths is short
DfsDepths(b) ==
    {Some(m) : m \in 1..MaxDfsDepth} \cup (IF Size(b) <= MaxUnboundedDfsSize THEN {None} ELSE {})

\* args.dfs_max_depth at this call: on u it is what it was on inst.state
DfsDepthChoices(b, in) == IF in.solvable THEN DfsDepths(b) ELSE {in.max_depth}

CallDfs ==
    /\ StartCall("dfs")
    /\ \E md \in DfsDepthChoices(board, inp) :
          LET in == [inp EXCEPT !.max_depth = md]
              R == DfsStart(in)
          IN  IF R.pc = "ret"
              THEN /\ dfsS' = Idle
                   /\ rec' = ("dfs" :> R.ret) @@ rec
                   /\ inp' = [in EXCEPT !.at = Place("dfs") + 1]
                   /\ phase' = After(inp')
              ELSE /\ dfsS' = R
                   /\ inp' = in
                   /\ phase' = "dfs"
                   /\ UNCHANGED rec
    /\ UNCHANGED <<board, rng, s, last_blank, steps, bfsS, idaS, astarS>>

DfsLoop ==
    /\ phase = "dfs"
    /\ \E fired \in Fired(inp) :
          LET R == DfsIter(board, dfsS, inp, fired)
          IN  IF R.pc = "ret"
              THEN /\ dfsS' = Idle
                   /\ Return("dfs", "dfs", R)
              ELSE /\ dfsS' = R
                   /\ UNCHANGED <<inp, rec, phase>>
    /\ UNCHANGED <<board, rng, s, last_blank, steps, bfsS, idaS, astarS>>

\* --heuristic: drawn at the first informed call of the run, kept for the rest
HeuristicChoices(in) == IF in.hname = "" THEN Heuristics ELSE {in.hname}

\* --tie_break of runner; "h" in visualize_path, which has set it
TieBreakChoices(in) == IF in.tie_break = "" THEN TieBreaks ELSE {in.tie_break}

\* use_bpmx = args.bpmx: the flag is given or not; on u it is what it was
\* on inst.state; the second run of a pair is the one with --bpmx
BpmxChoices(in) ==
    IF ~in.solvable THEN {in.use_bpmx}
    ELSE IF in.rerun THEN {TRUE}
    ELSE BOOLEAN

\* the label of the record of ida_star: the flag --bpmx tells the runs apart
IdaLabel(in) == IF in.use_bpmx THEN "ida_bpmx" ELSE "ida"

\* ida_star(start, goal, hfun, neighbors_fn=neighbors_fn, use_bpmx=args.bpmx,
\*          return_path=..., timeout_sec=args.timeout_sec)
CallIda ==
    /\ StartCall("ida")
    /\ \E hn \in HeuristicChoices(inp), bp \in BpmxChoices(inp) :
          /\ inp' = [inp EXCEPT !.hname = hn, !.use_bpmx = bp]
          /\ idaS' = IdaStart(board, inp')
    /\ phase' = "ida"
    /\ UNCHANGED <<board, rng, s, last_blank, steps, bfsS, dfsS, astarS, rec>>

\* what a step of ida_star leaves: the locals, or the returned record
IdaAfter(R) ==
    IF R.pc = "ret"
    THEN /\ idaS' = Idle
         /\ Return("ida", IdaLabel(inp), R)
    ELSE /\ idaS' = R
         /\ UNCHANGED <<inp, rec, phase>>

IdaOuterLoop ==
    /\ phase = "ida"
    /\ idaS.pc = "outer"
    /\ \E fired \in Fired(inp) : IdaAfter(IdaOuter(idaS, inp, fired))
    /\ UNCHANGED <<board, rng, s, last_blank, steps, bfsS, dfsS, astarS>>

IdaDfsStep ==
    /\ phase = "ida"
    /\ idaS.pc = "dfs"
    /\ \E fired \in Fired(inp) : IdaAfter(IdaStep(board, idaS, inp, fired))
    /\ UNCHANGED <<board, rng, s, last_blank, steps, bfsS, dfsS, astarS>>

\* a_star(start, goal, hfun, neighbors_fn=neighbors_fn, tie_break=args.tie_break,
\*        return_path=..., timeout_sec=args.timeout_sec)
CallAStar ==
    /\ StartCall("astar")
    /\ \E hn \in HeuristicChoices(inp), tb \in TieBreakChoices(inp) :
          /\ inp' = [inp EXCEPT !.hname = hn, !.tie_break = tb]
          /\ astarS' = AStarStart(board, inp')
    /\ phase' = "astar"
    /\ UNCHANGED <<board, rng, s, last_blank, steps, bfsS, dfsS, idaS, rec>>

AStarLoop ==
    /\ phase = "astar"
    /\ \E fired \in Fired(inp) :
          LET R == AStarIter(board, astarS, inp, fired)
          IN  IF R.pc = "ret"
              THEN /\ astarS' = Idle
                   /\ Return("astar", "astar", R)
              ELSE /\ astarS' = R
                   /\ UNCHANGED <<inp, rec, phase>>
    /\ UNCHANGED <<board, rng, s, last_blank, steps, bfsS, dfsS, idaS>>

\* runner.main on instances it scrambles
NextRunner ==
    \/ Scramble
    \/ Begin
    \/ BeginVariant
    \/ CallAStar
    \/ AStarLoop
    \/ CallIda
    \/ IdaOuterLoop
    \/ IdaDfsStep
    \/ CallBfs
    \/ BfsLoop
    \/ CallDfs
    \/ DfsLoop

\* runner.main, visualize_path.main and enhanced_runner.main
Next ==
    \/ Scramble
    \/ Begin
    \/ BeginVariant
    \/ BeginVisualize
    \/ BeginEnhanced
    \/ CallAStar
    \/ AStarLoop
    \/ CallIda
    \/ IdaOuterLoop
    \/ IdaDfsStep
    \/ CallBfs
    \/ BfsLoop
    \/ CallDfs
    \/ DfsLoop

Spec == Init /\ [][Next]_vars

(***************************************************************************)
(* The scramble walk alone, on more boards and to a greater depth: every   *)
(* state within WalkCap slides of GOAL, with the number of slides made.    *)
(***************************************************************************)
InitWalk == \E b \in WalkBoards : Fresh(b, <<>>)

NextWalk == Walk

SpecWalk == InitWalk /\ [][NextWalk]_vars

(***************************************************************************)
(* The runner on instances made by scramble(depth, seed), in a pair of     *)
(* command lines: after a run whose ida_star calls were plain, the runner  *)
(* is started a second time with the same --heuristic, --depths and seeds  *)
(* and with --algo ida --bpmx, so _gen makes the same instances again.     *)
(* rec keeps the rows of the first run beside those of the second, as the  *)
(* two result files do.  Neither run has --include_unsolvable or a timeout.*)
(***************************************************************************)
InitSeeded == \E run \in SeededScrambles : Fresh(run.board, run.choices)

RunAgain ==
    /\ phase = "done"
    /\ ~inp.include_unsolvable /\ ~Timed(inp)
    /\ Ran("ida") /\ ~Ran("ida_bpmx")
    /\ inp' = [inp EXCEPT !.algo = "ida", !.at = 1, !.rerun = TRUE]
    /\ phase' = "caller"
    /\ UNCHANGED <<board, rng, s, last_blank, steps, bfsS, dfsS, idaS, astarS, rec>>

NextSeeded ==
    \/ SeededScramble
    \/ Begin
    \/ RunAgain
    \/ CallAStar
    \/ AStarLoop
    \/ CallIda
    \/ IdaOuterLoop
    \/ IdaDfsStep
    \/ CallBfs
    \/ BfsLoop
    \/ CallDfs
    \/ DfsLoop

SpecSeeded == InitSeeded /\ [][NextSeeded]_vars

----
(***************************************************************************)
(* The runner with --rows 4 --cols 2 --algo ida on two seeded instances    *)
(* 23 and 22 moves from the goal.  With linear_conflict and --bpmx a       *)
(* child -> parent raise cuts a call off here after an earlier successor   *)
(* of the call has returned a smaller number.                              *)
(***************************************************************************)
InitTall == \E run \in SeededScramblesTall : Fresh(run.board, run.choices)

NextTall ==
    \/ SeededScramble
    \/ BeginIda
    \/ CallIda
    \/ IdaOuterLoop
    \/ IdaDfsStep

SpecTall == InitTall /\ [][NextTall]_vars

----
(***************************************************************************)
(* The runner with a neighbor function that has dead ends.                 *)
(***************************************************************************)
InitTrap == \E b \in TrapBoards : Fresh(b, <<>>)

SpecTrap == InitTrap /\ [][NextRunner]_vars

(***************************************************************************)
(* The domain functions on arbitrary states: a state of the board is any    *)
(* arrangement of the tiles 0..size-1 (the functions take any such tuple),  *)
(* and a caller applies neighbors or make_unsolvable_variant to it.         *)
(***************************************************************************)
StateBoards == {<<2, 2>>, <<2, 3>>, <<3, 2>>, <<3, 3>>}

\* every tuple that holds each of 0..size-1 once
States(b) == {[i \in 1..Size(b) |-> p[i] - 1] : p \in Permutations(1..Size(b))}

InitStates ==
    \E b \in StateBoards : \E st \in States(b) :
        /\ board = b
        /\ phase = "state"
        /\ s = st
        /\ last_blank = NoBlank
        /\ steps = 0
        /\ rng = <<>>
        /\ inp = NoInput
        /\ bfsS = Idle /\ dfsS = Idle /\ idaS = Idle /\ astarS = Idle
        /\ rec = <<>>

\* s becomes one of neighbors(s)
Slide ==
    /\ phase = "state"
    /\ \E k \in 1..Len(neighbors(board, s)) : s' = neighbors(board, s)[k][1]
    /\ UNCHANGED <<board, phase, last_blank, steps, rng, inp, bfsS, dfsS, idaS, astarS, rec>>

\* s becomes make_unsolvable_variant(s)
MakeVariant ==
    /\ phase = "state"
    /\ s' = make_unsolvable_variant(s)
    /\ UNCHANGED <<board, phase, last_blank, steps, rng, inp, bfsS, dfsS, idaS, astarS, rec>>

NextStates == Slide \/ MakeVariant

SpecStates == InitStates /\ [][NextStates]_vars

(***************************************************************************)
(* The experiment as a running program: the interpreter keeps executing    *)
(* the one thread, so a step that can be taken is eventually taken.        *)
(***************************************************************************)
FairBoards == {<<2, 2>>} \cup TrapBoards

InitFair == \E b \in FairBoards : Fresh(b, <<>>)

\* a step can be taken exactly until the caller is done with the instance
Running == phase # "done"

\* weak fairness of NextRunner, WF_vars(NextRunner), written out by its definition
\*     []<>(~ENABLED <<NextRunner>>_vars) \/ []<><<NextRunner>>_vars
\* with the state predicate Running in the place of ENABLED <<NextRunner>>_vars,
\* which it equals in every reachable state
Fairness == []<>(~Running) \/ []<><<NextRunner>>_vars

SpecFair == InitFair /\ [][NextRunner]_vars /\ Fairness

(***************************************************************************)
(* Properties.                                                             *)
(***************************************************************************)
\* the instance is solvable and its calls are given no timeout
Untimed == inp.solvable /\ ~Timed(inp)

\* C1: for every solvable start and every tie_break policy, a_star with the
\* Manhattan heuristic and no timeout terminates "ok" with g equal to the g
\* that bfs returns for the same start and goal
C1_AStarManhattanOptimal ==
    (Ran("bfs") /\ Ran("astar") /\ Untimed /\ inp.hname = "manhattan")
        => /\ rec.astar.termination = "ok"
           /\ rec.bfs.termination = "ok"
           /\ rec.astar.g = rec.bfs.g

\* a_star with Manhattan and tie_break lifo has solved an instance ten or more moves deep
C1_Witness ==
    /\ Ran("bfs") /\ Ran("astar") /\ Untimed
    /\ inp.hname = "manhattan" /\ inp.tie_break = "lifo"
    /\ rec.astar.termination = "ok"
    /\ rec.astar.g = rec.bfs.g
    /\ rec.astar.g[1] >= 10
    /\ rec.astar.duplicates > 0

\* C2: for every solvable start, a_star with the linear_conflict heuristic and
\* no timeout terminates "ok" with g equal to the g that bfs returns
C2_AStarLinearConflictOptimal ==
    (Ran("bfs") /\ Ran("astar") /\ Untimed /\ inp.hname = "linear_conflict")
        => /\ rec.astar.termination = "ok"
           /\ rec.bfs.termination = "ok"
           /\ rec.astar.g = rec.bfs.g

\* C3: for every solvable start and either heuristic, ida_star without and
\* with BPMX terminates "ok" with the g that a_star returns for the same
\* start, goal and heuristic
C3_IdaStarSameCostAsAStar ==
    (Ran("ida") /\ Ran("ida_bpmx") /\ Ran("astar") /\ Untimed)
        => /\ rec.ida.termination = "ok"
           /\ rec.ida_bpmx.termination = "ok"
           /\ rec.ida.g = rec.astar.g
           /\ rec.ida_bpmx.g = rec.astar.g

\* C4: for a fixed start, goal and heuristic, ida_star with use_bpmx = True
\* returns the same g and the same termination as with use_bpmx = False
C4_BpmxSameCost ==
    (Ran("ida") /\ Ran("ida_bpmx") /\ ~Timed(inp))
        => /\ rec.ida_bpmx.g = rec.ida.g
           /\ rec.ida_bpmx.termination = rec.ida.termination

\* C5: for a fixed start, goal and heuristic and no timeout, the final
\* expanded counter of ida_star with use_bpmx = True is never greater than
\* with use_bpmx = False
C5_BpmxNeverExpandsMore ==
    (Ran("ida") /\ Ran("ida_bpmx") /\ ~Timed(inp))
        => rec.ida_bpmx.expanded <= rec.ida.expanded

\* C6: manhattan is admissible: on every state s reached from GOAL it is a
\* non-negative integer no greater than the number of slides of any walk
\* from GOAL to s, hence no greater than the length of the shortest one, the
\* true distance; and manhattan(GOAL) = 0
C6_ManhattanAdmissible ==
    /\ manhattan(board, s) \in Nat
    /\ manhattan(board, s) <= steps
    /\ s = GOAL(board) => manhattan(board, s) = 0

\* a 3x3 state at the end of the deepest walk on which manhattan is exact
C6_Witness ==
    /\ board = <<3, 3>>
    /\ steps = MaxWalkLarge
    /\ manhattan(board, s) = steps

\* C7: linear_conflict as implemented is admissible on boards with a row or
\* column of length three or more: on every state s reached from GOAL it is
\* no greater than the number of slides of any walk from GOAL to s
C7_LinearConflictAdmissible ==
    (Rows(board) >= 3 \/ Cols(board) >= 3) => linear_conflict(board, s) <= steps

\* C8: manhattan is consistent: manhattan(s) <= c + manhattan(s2) for every
\* state s and every (s2, c) of neighbors(s)
C8_ManhattanConsistent ==
    \A k \in 1..Len(neighbors(board, s)) :
        LET e == neighbors(board, s)[k]
        IN  manhattan(board, s) <= e[2] + manhattan(board, e[1])

\* a 3x3 state, off the goal, with a neighbour that meets the bound exactly
\* and another that is farther from the goal
C8_Witness ==
    /\ board = <<3, 3>>
    /\ steps >= 6
    /\ \E k \in 1..Len(neighbors(board, s)) :
          manhattan(board, s) = 1 + manhattan(board, neighbors(board, s)[k][1])
    /\ \E k \in 1..Len(neighbors(board, s)) :
          manhattan(board, s) = manhattan(board, neighbors(board, s)[k][1]) - 1

\* C9: linear_conflict as implemented is consistent: linear_conflict(s) <=
\* c + linear_conflict(s2) for every reachable state s and every (s2, c) of
\* neighbors(s)
C9_LinearConflictConsistent ==
    \A k \in 1..Len(neighbors(board, s)) :
        LET e == neighbors(board, s)[k]
        IN  linear_conflict(board, s) <= e[2] + linear_conflict(board, e[1])

\* C10: in every record returned by bfs, dfs, ida_star and a_star, g is
\* present exactly when termination is "ok"; "timeout" and "exhausted"
\* records carry g = None
C10_CostIffOk ==
    \A a \in DOMAIN rec :
        /\ rec[a].termination \in {"ok", "timeout", "exhausted"}
        /\ (rec[a].g # None) <=> (rec[a].termination = "ok")

\* bfs solved the instance and the depth-limited dfs after it gave up
C10_Witness ==
    /\ Ran("bfs") /\ Ran("dfs")
    /\ rec.bfs.termination = "ok" /\ rec.bfs.g # None
    /\ rec.dfs.termination = "exhausted" /\ rec.dfs.g = None
    /\ rec.dfs.expanded > 0

\* no call is in progress: every record made so far is in rec
Returned == phase \in {"caller", "variant", "done"}

\* (a, c) is an edge of the neighbor function
IsEdge(b, a, c) == \E k \in 1..Len(neighbors_fn(b, a)) : neighbors_fn(b, a)[k][1] = c

\* the path of record R leads from start to goal along edges and has g edges
ValidPath(b, in, R) ==
    /\ R.path # None
    /\ Len(R.path) >= 1
    /\ R.path[1] = in.start
    /\ R.path[Len(R.path)] = in.goal
    /\ \A i \in 1..Len(R.path) - 1 : IsEdge(b, R.path[i], R.path[i + 1])
    /\ R.g = Some(Len(R.path) - 1)

\* the call kept under label a was asked for the path: a_star and ida_star
\* with return_path = True, bfs always
PathAsked(a) == a = "bfs" \/ inp.return_path

\* C11: whenever a_star, ida_star (return_path = True) or bfs terminates "ok",
\* the returned path starts at start, ends at goal, joins consecutive states
\* by edges of the neighbor function, and its length minus one is the g returned
C11_PathValid ==
    Returned =>
        \A a \in DOMAIN rec \cap {"astar", "ida", "ida_bpmx", "bfs"} :
            (rec[a].termination = "ok" /\ PathAsked(a)) => ValidPath(board, inp, rec[a])

\* ida_star with BPMX, called with return_path = True and the default
\* neighbor function, returned a path of eight moves after generating states
\* more than once
C11_Witness ==
    /\ Ran("ida_bpmx") /\ inp.return_path
    /\ board = <<3, 3, "default">>
    /\ rec.ida_bpmx.termination = "ok"
    /\ rec.ida_bpmx.duplicates > 0
    /\ Len(rec.ida_bpmx.path) = MaxVisualizeScramble + 1
    /\ ValidPath(board, inp, rec.ida_bpmx)


\* C12: in every record a_star or ida_star returns with at least one
\* expansion, whatever the neighbor function (dead ends included) and
\* whatever the termination, generated is at least expanded.
C12_GeneratedAtLeastExpanded ==
    Returned =>
        \A a \in DOMAIN rec \cap {"astar", "ida", "ida_bpmx"} :
            rec[a].expanded >= 1 => rec[a].generated >= rec[a].expanded


\* C13: every record that carries a duplicates counter (a_star, ida_star,
\* dfs) has duplicates <= generated at return, for every start state,
\* solvable or not, and every option setting.
C13_DuplicatesAtMostGenerated ==
    Returned =>
        \A a \in DOMAIN rec \cap {"astar", "ida", "ida_bpmx", "dfs"} :
            rec[a].duplicates <= rec[a].generated


\* C14: the state scramble returns satisfies is_solvable, for every board
\* (square, non-square, odd and even width), every walk length and every
\* sequence of random choices: every state of the walk from GOAL is solvable.
C14_ScrambleSolvable == is_solvable(board, s)

\* an even-width, non-square board, the blank off the bottom row after a walk
\* of full length, where the inversion count alone is odd
C14_Witness ==
    /\ board = <<4, 2>>
    /\ steps = WalkCap(board)
    /\ BlankIndex(s) \div Cols(board) < Rows(board) - 1
    /\ Inversions(s) % 2 = 1
    /\ is_solvable(board, s)


\* the states one edge away from a state of F
Successors(b, F) ==
    UNION {{neighbors_fn(b, a)[k][1] : k \in 1..Len(neighbors_fn(b, a))} : a \in F}

RECURSIVE DistanceFrom(_, _, _, _, _)
\* the least number of edges of a path from a state of F to goal, given that
\* F holds the states at distance k from the start and seen those nearer;
\* None when no path exists
DistanceFrom(b, F, seen, goal, k) ==
    IF goal \in F THEN Some(k)
    ELSE IF F = {} THEN None
    ELSE DistanceFrom(b, Successors(b, F) \ (seen \cup F), seen \cup F, goal, k + 1)

Distance(b, a, goal) == DistanceFrom(b, {a}, {}, goal, 0)

\* the record of bfs has just been handed to the caller
BfsReturned == Returned /\ Ran("bfs") /\ ~Ran("dfs")

\* C15: for every start from which the goal is reachable, bfs without a
\* timeout terminates "ok" with g equal to the minimum number of edges of
\* any path from start to goal in the neighbor graph.
C15_BfsShortest ==
    (BfsReturned /\ ~Timed(inp)) =>
        LET d == Distance(board, inp.start, inp.goal)
        IN  d # None => /\ rec.bfs.termination = "ok"
                        /\ rec.bfs.g = d

\* bfs returned the distance of a start twelve edges from the goal
C15_Witness ==
    /\ BfsReturned /\ ~Timed(inp)
    /\ rec.bfs.termination = "ok"
    /\ rec.bfs.g = Some(MaxScramble)
    /\ Distance(board, inp.start, inp.goal) = Some(MaxScramble)


\* C16: dfs called with max_depth = m never returns "ok" with g > m, and on
\* a start whose shortest distance to the goal is greater than m (or that
\* cannot reach the goal) it terminates, absent a timeout, "exhausted" with
\* g = None.
C16_DfsDepthBound ==
    (Returned /\ Ran("dfs") /\ inp.max_depth # None) =>
        LET m == inp.max_depth[1]
            d == Distance(board, inp.start, inp.goal)
        IN  /\ (rec.dfs.termination = "ok" => rec.dfs.g[1] <= m)
            /\ (~Timed(inp) /\ (d = None \/ d[1] > m)) =>
                   /\ rec.dfs.termination = "exhausted"
                   /\ rec.dfs.g = None

\* max_depth = 3 on an instance six edges from the goal: exhausted after
\* expanding and cutting off
C16_Witness ==
    /\ Returned /\ Ran("dfs") /\ ~Timed(inp)
    /\ inp.max_depth = Some(MaxDfsDepth)
    /\ Distance(board, inp.start, inp.goal) = Some(2 * MaxDfsDepth)
    /\ rec.dfs.termination = "exhausted"
    /\ rec.dfs.g = None
    /\ rec.dfs.peak_recursion = MaxDfsDepth


\* the call of the search kept under label a is running
Calling(a) ==
    \/ a \in {"bfs", "dfs", "astar"} /\ phase = a
    \/ phase = "ida" /\ a = IdaLabel(inp)

\* no path leads from the start to the goal, and no timeout is configured
GoalUnreachable ==
    /\ inp.timeout_sec = None
    /\ Distance(board, inp.start, inp.goal) = None

\* C17: on a finite graph in which the goal is not reachable from the start
\* (an odd-parity puzzle state, a start without successors), with no timeout
\* configured, every call of a_star, ida_star (BPMX off and on), bfs and dfs
\* (with and without max_depth) eventually returns, and its record has
\* termination "exhausted".
C17_UnreachableExhausts ==
    \A a \in {"astar", "ida", "ida_bpmx", "bfs", "dfs"} :
        (Calling(a) /\ GoalUnreachable)
            ~> (Ran(a) /\ rec[a].termination = "exhausted")

\* the four searches of a run with --algo all --bpmx have exhausted the
\* odd-parity component of the 2x2 board, dfs without a depth bound
C17_Witness ==
    /\ phase = "done"
    /\ board = <<2, 2>>
    /\ ~inp.solvable
    /\ GoalUnreachable
    /\ inp.max_depth = None
    /\ DOMAIN rec = {"astar", "ida_bpmx", "bfs", "dfs"}
    /\ \A a \in DOMAIN rec : rec[a].termination = "exhausted"
    /\ rec.ida_bpmx.expanded > Size(board)


\* the entry a_star pops next is stale: its state is already in closed
StalePop ==
    /\ phase = "astar"
    /\ astarS.open_heap # <<>>
    /\ astarS.items[Head(astarS.open_heap).node].state \in astarS.closed

\* C18: whenever a_star discards a popped entry because its state is
\* already closed, the entry's g is not smaller than the g with which the
\* state was expanded, with manhattan and with linear_conflict.
C18_StaleEntryNotCheaper ==
    StalePop =>
        LET item == astarS.items[Head(astarS.open_heap).node]
        IN  item.g >= astarS.closed_g[item.state]


\* the PQItem of a frontier entry; the position of an item in items is the
\* order in which the entries were pushed
ItemOf(e) == astarS.items[e.node]

\* the entry first is popped before the entry other under the policy tb
PopsBefore(tb, first, other) ==
    LET a == ItemOf(first)
        e == ItemOf(other)
    IN  \/ a.f < e.f
        \/ /\ a.f = e.f
           /\ CASE tb = "g" -> a.g > e.g \/ (a.g = e.g /\ first.node < other.node)
                [] tb = "fifo" -> first.node < other.node
                [] tb = "lifo" -> first.node > other.node
                [] OTHER -> a.h < e.h \/ (a.h = e.h /\ first.node < other.node)

\* strings that are none of the four policies: a caller of a_star other than
\* runner, whose --tie_break takes the four only, can pass them
Unrecognised == {"", "H", "other"}

\* C19: the entry a_star pops next has minimum f = g + h, and among the
\* entries of equal f it is the one with smallest h under "h", largest g
\* under "g", pushed earliest under "fifo", pushed latest under "lifo";
\* remaining ties under "h" and "g" go to the earlier push, and an
\* unrecognised tie_break behaves as "h": it gives every entry of the
\* frontier the priority that "h" gives it.
C19_PopOrder ==
    (phase = "astar" /\ astarS.open_heap # <<>>) =>
        /\ \A k \in 1..Len(astarS.open_heap) :
              ItemOf(astarS.open_heap[k]).f
                  = ItemOf(astarS.open_heap[k]).g + ItemOf(astarS.open_heap[k]).h
        /\ \A k \in 2..Len(astarS.open_heap) :
              PopsBefore(inp.tie_break, astarS.open_heap[1], astarS.open_heap[k])
        /\ \A k \in 1..Len(astarS.open_heap), tb \in Unrecognised :
              LET e == astarS.open_heap[k]
              IN  priority_tuple(tb, ItemOf(e).f, ItemOf(e).g, ItemOf(e).h, e.ctr)
                     = priority_tuple("h", ItemOf(e).f, ItemOf(e).g, ItemOf(e).h, e.ctr)

\* each tie is met: some other entry has the f of the entry popped next
TieAtPop(tb) ==
    /\ phase = "astar" /\ inp.tie_break = tb
    /\ Len(astarS.open_heap) >= 3
    /\ \E k \in 2..Len(astarS.open_heap) :
          /\ ItemOf(astarS.open_heap[k]).f = ItemOf(astarS.open_heap[1]).f
          /\ ItemOf(astarS.open_heap[k]).h # ItemOf(astarS.open_heap[1]).h

\* tie_break "g" with a tie on f between entries that differ in h and g, and
\* the entry popped next is not the one pushed first
C19_Witness ==
    /\ TieAtPop("g")
    /\ \E k \in 2..Len(astarS.open_heap) :
          /\ ItemOf(astarS.open_heap[k]).f = ItemOf(astarS.open_heap[1]).f
          /\ astarS.open_heap[k].node < astarS.open_heap[1].node


\* the first iteration of ida_star is about to start
IdaFirstIteration ==
    phase = "ida" /\ idaS.pc = "outer" /\ idaS.expanded = 0 /\ idaS.generated = 0

\* the bound of the first iteration is hfun(start); every number a call of
\* dfs has returned in the current iteration is over the bound, so it is
\* never the found sentinel
IdaBoundInv ==
    phase = "ida" =>
        /\ IdaFirstIteration => idaS.bound = hfun(board, inp.hname, inp.start)
        /\ idaS.bound >= 0
        /\ idaS.pc = "dfs" => idaS.iter_min > idaS.bound
        /\ \A k \in 1..Len(idaS.stack) : idaS.stack[k].min_next > idaS.bound

\* an iteration ends without the goal, a timeout or infinity
IdaIterationEnds == phase = "ida" /\ phase' = "ida" /\ idaS'.pc = "outer"

\* the next bound is the least number returned in the iteration for a node
\* over the bound, and it is greater than the bound
IdaNextBound ==
    IdaIterationEnds =>
        /\ idaS'.bound = idaS'.iter_min
        /\ idaS'.bound > idaS.bound

\* the next bound is greater than the bound and not under the least number
\* returned in the iteration; it is that number when BPMX is off, and when
\* no early cutoff of the iteration has returned g + h_parent from a call
\* whose min_next was smaller
IdaNextBoundReturned ==
    IdaIterationEnds =>
        /\ idaS'.bound > idaS.bound
        /\ idaS'.bound >= idaS'.iter_min
        /\ ~inp.use_bpmx => idaS'.bound = idaS'.iter_min
        /\ ~idaS'.iter_lost => idaS'.bound = idaS'.iter_min

\* iter_lost is set by an early cutoff only, so never with BPMX off
IdaLostInv ==
    (phase = "ida" /\ idaS.pc \in {"outer", "dfs"} /\ idaS.iter_lost) => inp.use_bpmx

IdaTop == idaS.stack[Len(idaS.stack)]
IdaTopNbrs == neighbors_fn(board, IdaTop.state)
IdaTopNext == IdaNextChild(IdaTopNbrs, idaS.pathset, IdaTop.idx)

\* the value g + h_parent after the successor taken next has raised h_parent
CutoffValue ==
    IdaTop.g + hfun(board, inp.hname, IdaTopNbrs[IdaTopNext][1]) - IdaTopNbrs[IdaTopNext][2]

\* with BPMX on, the successor taken next raises h_parent so that
\* g + h_parent > bound
EarlyCutoff ==
    /\ phase = "ida" /\ idaS.pc = "dfs" /\ inp.use_bpmx
    /\ IdaTopNext <= Len(IdaTopNbrs)
    /\ CutoffValue - IdaTop.g > IdaTop.h_parent
    /\ CutoffValue > idaS.bound

\* C21: with use_bpmx = True, when a successor's raw heuristic minus the
\* edge cost raises the parent's h so that g + h_parent > bound, the call
\* returns g + h_parent at once: nothing is generated, expanded or recursed
\* into, and the caller takes the value as a candidate for min_next (the
\* outer loop as the next bound), never as the found or timeout sentinel.
C21_BpmxEarlyCutoff ==
    [][EarlyCutoff =>
          LET n == Len(idaS.stack)
          IN  /\ phase' = "ida"
              /\ idaS'.generated = idaS.generated
              /\ idaS'.expanded = idaS.expanded
              /\ idaS'.duplicates = idaS.duplicates
              /\ idaS'.parents = idaS.parents
              /\ idaS'.solution_g = idaS.solution_g
              /\ IF n = 1
                 THEN /\ idaS'.pc = "outer"
                      /\ idaS'.stack = <<>>
                      /\ idaS'.bound = CutoffValue
                 ELSE /\ idaS'.pc = "dfs"
                      /\ idaS'.bound = idaS.bound
                      /\ idaS'.pathset = idaS.pathset \ {IdaTop.state}
                      /\ idaS'.stack =
                            [SubSeq(idaS.stack, 1, n - 1) EXCEPT
                               ![n - 1].min_next = Min2(@, CutoffValue)]]_vars

\* an early cutoff in a nested call that leaves a later sibling unvisited
C21_Witness ==
    /\ EarlyCutoff
    /\ Len(idaS.stack) >= 2
    /\ IdaNextChild(IdaTopNbrs, idaS.pathset, IdaTopNext + 1) <= Len(IdaTopNbrs)
    /\ CutoffValue < idaS.stack[Len(idaS.stack) - 1].min_next


\* the states bfs has dequeued: every state it has seen is in the queue or
\* has left it
BfsDequeued == bfsS.seen \ SeqToSet(bfsS.q)

RECURSIVE EdgesFrom(_, _)
\* the number of successor edges of the states of S
EdgesFrom(b, S) ==
    IF S = {} THEN 0
    ELSE LET a == CHOOSE x \in S : TRUE
         IN  Len(neighbors_fn(b, a)) + EdgesFrom(b, S \ {a})

\* no state is enqueued twice: the queue holds distinct seen states, and a
\* pass of the loop appends only states it has not seen before
BfsEnqueuesOnce ==
    (phase = "bfs" /\ phase' = "bfs") =>
        LET old == Tail(bfsS.q)
            new == SubSeq(bfsS'.q, Len(old) + 1, Len(bfsS'.q))
        IN  /\ SubSeq(bfsS'.q, 1, Len(old)) = old
            /\ \A k \in 1..Len(new) : new[k] \notin bfsS.seen
            /\ \A j, k \in 1..Len(new) : new[j] = new[k] => j = k
            /\ bfsS'.seen = bfsS.seen \cup SeqToSet(new)

\* bfs returns in this step: the dequeues made so far, the one of this step
\* included when the goal is dequeued
BfsDequeuesAtReturn ==
    Cardinality(BfsDequeued) + (IF rec'.bfs.termination = "ok" THEN 1 ELSE 0)

\* C22: at every return of bfs, expanded is the number of states dequeued so
\* far, the dequeue of the goal on an "ok" return included, and generated
\* is the number of successor edges examined, seen before or not; no state
\* is ever enqueued twice.
C22_BfsCounters ==
    [][/\ BfsEnqueuesOnce
       /\ (phase = "bfs" /\ phase' # "bfs") =>
             /\ rec'.bfs.expanded = BfsDequeuesAtReturn
             /\ rec'.bfs.generated = EdgesFrom(board, BfsDequeued)]_vars

\* C22, amended: at every return of bfs, expanded is the number of states
\* dequeued and expanded so far, which leaves out the dequeue of the goal on
\* an "ok" return; generated is the number of successor edges examined,
\* seen before or not; no state is ever enqueued twice.
C22_BfsCountersGoalNotCounted ==
    [][/\ BfsEnqueuesOnce
       /\ (phase = "bfs" /\ phase' # "bfs") =>
             /\ rec'.bfs.expanded = Cardinality(BfsDequeued)
             /\ rec'.bfs.generated = EdgesFrom(board, BfsDequeued)]_vars


\* bfs has returned "ok" after a hundred expansions and more, most of the
\* edges it examined leading to states seen before
C22_Witness ==
    /\ BfsReturned
    /\ rec.bfs.termination = "ok"
    /\ rec.bfs.expanded >= 100
    /\ rec.bfs.generated >= 2 * rec.bfs.expanded
    /\ rec.bfs.g[1] >= 10


\* the entry on top of the stack of dfs and the successors of its state
DfsTop == dfsS.stack[Len(dfsS.stack)]
DfsTopNbrs == neighbors_fn(board, DfsTop.state)

\* this pass of the loop of dfs pulls a successor from the iterator of the
\* entry on top: the deadline has not fired and the iterator is not used up
DfsPulls ==
    /\ phase = "dfs" /\ dfsS.stack # <<>>
    /\ ~(phase' # "dfs" /\ rec'.dfs.termination = "timeout")
    /\ DfsTop.it <= Len(DfsTopNbrs)

\* the successor pulled passes the depth bound and the on-path test
DfsPasses ==
    /\ ~depth_bound(inp, DfsTop.d)
    /\ DfsTopNbrs[DfsTop.it][1] \notin dfsS.on_path

\* the counters after the pass: in the locals, or in the record returned
DfsExpandedAfter == IF phase' = "dfs" THEN dfsS'.expanded ELSE rec'.dfs.expanded
DfsGeneratedAfter == IF phase' = "dfs" THEN dfsS'.generated ELSE rec'.dfs.generated

\* C23: in dfs, expanded is incremented for a stacked node exactly once, at
\* the first time a successor is pulled from its iterator, whether or not
\* the depth bound or the on-path test then rejects that successor;
\* generated counts only the successors that pass both filters.
C23_DfsCounters ==
    [][phase = "dfs" =>
          IF DfsPulls
          THEN /\ DfsExpandedAfter = dfsS.expanded + (IF DfsTop.did_expand THEN 0 ELSE 1)
               /\ DfsGeneratedAfter = dfsS.generated + (IF DfsPasses THEN 1 ELSE 0)
          ELSE /\ DfsExpandedAfter = dfsS.expanded
               /\ DfsGeneratedAfter = dfsS.generated]_vars

\* the stack of dfs is a chain of neighbor edges from the start, the entry at
\* index i (from 0) has depth i, and its states are pairwise distinct
DfsStackChain ==
    LET st == dfsS.stack
    IN  /\ st # <<>> => st[1].state = inp.start
        /\ \A i \in 1..Len(st) : st[i].d = i - 1
        /\ \A i \in 1..(Len(st) - 1) : IsEdge(board, st[i].state, st[i + 1].state)
        /\ \A i, j \in 1..Len(st) : st[i].state = st[j].state => i = j

\* C24: at every iteration of the loop of dfs, on_path is the set of the states
\* on the stack, and the stack holds pairwise distinct states that form a
\* chain of neighbor edges from the start, the entry at index i having depth
\* i; there is no global visited set, so a state taken off on backtracking
\* can be pushed again later on a different path (C24_Witness is such a push).
C24_DfsOnPathIsStack ==
    (phase = "dfs" /\ dfsS.pc = "loop") =>
        /\ dfsS.on_path = {dfsS.stack[i].state : i \in 1..Len(dfsS.stack)}
        /\ DfsStackChain

\* a state that backtracking took off the path at one depth has just been
\* pushed again at another depth
C24_Witness ==
    /\ phase = "dfs" /\ dfsS.pc = "loop" /\ Len(dfsS.stack) >= 3
    /\ DfsTop.it = 1
    /\ \E e \in dfsS.left : e[1] = DfsTop.state /\ e[2] # DfsTop.d

\* the state the walk of scramble was in before its last move
ScrambleBefore == Swap(s, BlankIndex(s), last_blank)

\* while the walk goes on, the blank has come from a neighbouring cell and
\* has a cell to go to
ScrambleInv ==
    phase = "scramble" =>
        /\ steps = 0 => s = GOAL(board) /\ last_blank = NoBlank
        /\ steps > 0 => last_blank \in SeqToSet(Nei(board, BlankIndex(s)))
        /\ ScrambleCand(board, BlankIndex(s), last_blank) # <<>>

\* a move of the walk is one legal slide of the blank that does not take it
\* back to the cell it left in the move before
ScrambleMove ==
    steps' = steps + 1 =>
        /\ IsEdge(board, s, s')
        /\ last_blank' = BlankIndex(s)
        /\ BlankIndex(s') # last_blank
        /\ steps > 0 => s' # ScrambleBefore

\* C25: on every board of at least 2x2 cells scramble never undoes a move at
\* once: the blank never returns to the cell it was in before the previous
\* move, so the state after step k+2 differs from the state after step k,
\* and the walk always makes exactly `depth` legal slides of the blank from
\* GOAL (it never runs out of candidates).
C25_ScrambleNoUndo == []ScrambleInv /\ [][ScrambleMove]_vars

\* a walk of full length on the 3x3 board whose last move had the cell the
\* blank came from among the neighbours and taken out of the candidates
C25_Witness ==
    /\ board = <<3, 3>> /\ steps = WalkCap(board) /\ s # GOAL(board)
    /\ Len(ScrambleCand(board, BlankIndex(ScrambleBefore), BlankIndex(s)))
          >= 1
    /\ Len(ScrambleCand(board, BlankIndex(s), last_blank))
          < Len(Nei(board, BlankIndex(s)))

\* the board is square with side n, the case NPuzzle(n) covers
Square(n) == Rows(board) = n /\ Cols(board) = n

\* the set of the (successor, cost) pairs of a list
PairSet(nbrs) == SeqToSet(nbrs)

\* NPuzzle(n) and RectPuzzle(n, n) agree on the state s
NPuzzleAgrees(n) ==
    /\ NPuzzle_GOAL(n) = GOAL(board)
    /\ PairSet(NPuzzle_neighbors(n, s)) = PairSet(neighbors(board, s))
    /\ Len(NPuzzle_neighbors(n, s)) = Len(neighbors(board, s))
    /\ NPuzzle_is_solvable(n, s) = is_solvable(board, s)
    /\ NPuzzle_manhattan(n, s) = manhattan(board, s)
    /\ NPuzzle_linear_conflict(n, s) = linear_conflict(board, s)

\* puzzle8 and RectPuzzle(3, 3) agree on the state s
Puzzle8Agrees ==
    /\ puzzle8_GOAL = GOAL(board)
    /\ PairSet(puzzle8_neighbors(s)) = PairSet(neighbors(board, s))
    /\ Len(puzzle8_neighbors(s)) = Len(neighbors(board, s))
    /\ puzzle8_is_solvable(s) = is_solvable(board, s)
    /\ puzzle8_manhattan(s) = manhattan(board, s)
    /\ puzzle8_linear_conflict(s) = linear_conflict(board, s)

\* cells i and j are next to each other in a row or in a column
Adjacent(b, i, j) ==
    Abs((i \div Cols(b)) - (j \div Cols(b))) + Abs((i % Cols(b)) - (j % Cols(b))) = 1

\* every pair of the list is s with the blank and one adjacent tile swapped,
\* at cost 1, and no two pairs are equal; lists of the same length that are
\* equal as sets share this
BlankSwaps(nbrs) ==
    /\ \A k \in 1..Len(nbrs) :
          /\ nbrs[k][2] = 1
          /\ \E j \in 0..(Len(s) - 1) :
                /\ Adjacent(board, BlankIndex(s), j)
                /\ nbrs[k][1] = Swap(s, BlankIndex(s), j)
    /\ Cardinality(PairSet(nbrs)) = Len(nbrs)

\* C26: on every 3x3 state puzzle8, NPuzzle(3) and RectPuzzle(3, 3) return
\* the same set of (successor, 1) pairs and equal values of is_solvable,
\* manhattan and linear_conflict; NPuzzle(n) and RectPuzzle(n, n) agree in
\* the same way; every successor is the input with the blank swapped with
\* one orthogonally adjacent tile.
C26_DomainsAgree ==
    phase = "state" =>
        /\ BlankSwaps(neighbors(board, s))
        /\ \A n \in 2..3 : Square(n) => NPuzzleAgrees(n)
        /\ Square(3) => Puzzle8Agrees

\* an unsolvable 3x3 state with the blank in the centre and linear conflicts,
\* where puzzle8 lists the four successors in another order than RectPuzzle
C26_Witness ==
    /\ phase = "state" /\ Square(3) /\ BlankIndex(s) = 4
    /\ ~is_solvable(board, s)
    /\ puzzle8_linear_conflict(s) > puzzle8_manhattan(s) + 2
    /\ puzzle8_neighbors(s) # neighbors(board, s)
    /\ Len(puzzle8_neighbors(s)) = 4

\* the set S, enumerated
Explicit(S) == DOMAIN [x \in S |-> TRUE]

RECURSIVE ReachFrom(_, _, _)
\* the states joined to a state of F or of seen by a path of neighbor edges,
\* given that every edge out of seen ends in seen or in F
ReachFrom(b, F, seen) ==
    IF F = {} THEN seen
    ELSE LET all == Explicit(seen \cup F)
         IN  ReachFrom(b, Explicit(Successors(b, F) \ all), all)

\* the boards small enough to hold the set of the states reachable from GOAL
Reach22 == ReachFrom(<<2, 2>>, {GOAL(<<2, 2>>)}, {})
Reach23 == ReachFrom(<<2, 3>>, {GOAL(<<2, 3>>)}, {})
Reach32 == ReachFrom(<<3, 2>>, {GOAL(<<3, 2>>)}, {})
ReachBoards == {<<2, 2>>, <<2, 3>>, <<3, 2>>}
ReachGoal(b) ==
    CASE b = <<2, 2>> -> Reach22
      [] b = <<2, 3>> -> Reach23
      [] b = <<3, 2>> -> Reach32

\* every edge has its reverse, so a state reaches GOAL iff GOAL reaches it,
\* and a move keeps the value of is_solvable
EdgesReverse ==
    \A k \in 1..Len(neighbors(board, s)) :
        LET t == neighbors(board, s)[k][1]
        IN  IsEdge(board, t, s) /\ is_solvable(board, t) = is_solvable(board, s)

\* C30: is_solvable is exact: on every arrangement s of a board (odd and even
\* width, square and not), is_solvable(s) holds iff s is reachable from GOAL
\* by neighbors, and make_unsolvable_variant takes every solvable state to a
\* state from which GOAL is unreachable.  On the 2x2, 2x3 and 3x2 boards the
\* reachable set is computed; on every board, 3x3 included, is_solvable holds
\* at GOAL, is kept by every move and is inverted by make_unsolvable_variant.
C30_SolvableIffReachable ==
    phase = "state" =>
        /\ is_solvable(board, GOAL(board))
        /\ EdgesReverse
        /\ is_solvable(board, make_unsolvable_variant(s)) # is_solvable(board, s)
        /\ board \in ReachBoards =>
              /\ is_solvable(board, s) <=> s \in ReachGoal(board)
              /\ is_solvable(board, s) =>
                    make_unsolvable_variant(s) \notin ReachGoal(board)

\* on the board of even width and three rows, an unreachable state with an
\* even number of inversions whose variant is reachable
C30_Witness ==
    /\ phase = "state" /\ board = <<3, 2>>
    /\ ~is_solvable(board, s) /\ s \notin ReachGoal(board)
    /\ make_unsolvable_variant(s) \in ReachGoal(board)
    /\ Inversions(s) % 2 = 0

\* a search is running, and its locals
Searching == phase \in {"bfs", "dfs", "ida", "astar"}
SearchLocals ==
    CASE phase = "bfs" -> bfsS
      [] phase = "dfs" -> dfsS
      [] phase = "ida" -> idaS
      [] phase = "astar" -> astarS

\* the records this step hands to the caller
NewRecords == {rec'[a] : a \in DOMAIN rec' \ DOMAIN rec}

\* the successor whose entry of dfs sampled the deadline was counted as
\* generated by its parent just before the call
GeneratedAtSample ==
    SearchLocals.generated + (IF phase = "ida" /\ idaS.pc = "dfs" THEN 1 ELSE 0)

\* a step that returns "timeout" is a step of a search that was given a
\* timeout, and its record carries no g, no path and the counters as they are
TimeoutStep ==
    \A R \in NewRecords : R.termination = "timeout" =>
        /\ Searching
        /\ inp.timeout_sec # None
        /\ R.g = None /\ R.path = None
        /\ R.expanded = SearchLocals.expanded
        /\ R.generated = GeneratedAtSample

\* C27: the deadline is inspected only at the sampling point of each
\* algorithm (a pass of the loop of a_star, bfs and dfs, an entry of dfs in
\* ida_star); when the check fires the algorithm returns at once with
\* termination "timeout", g = None, path = None and the expanded and
\* generated counted so far, expanding nothing more; with timeout_sec None
\* no algorithm ever returns "timeout".
C27_Timeout ==
    /\ [](\A a \in DOMAIN rec : rec[a].termination = "timeout" => Timed(inp))
    /\ [][TimeoutStep]_vars

\* ida_star with BPMX was stopped by the deadline in the middle of an
\* iteration, after it had expanded and generated nodes
C27_Witness ==
    /\ Ran("ida_bpmx") /\ Timed(inp)
    /\ rec.ida_bpmx.termination = "timeout"
    /\ rec.ida_bpmx.expanded >= 2
    /\ rec.ida_bpmx.generated > rec.ida_bpmx.expanded
    /\ rec.ida_bpmx.g = None /\ rec.ida_bpmx.path = None

\* the call of ida_star has just returned: its record is the last one kept
IdaJustReturned ==
    Returned /\ inp.at = Place("ida") + 1 /\ Ran(IdaLabel(inp))

\* C28: ida_star with the Manhattan heuristic, BPMX off or on, on a solvable
\* start: the bound of every iteration is at most the true shortest distance
\* from start to goal, so the iteration that finds the goal finds it at
\* optimal cost, and on "ok" bound_final equals g.
C28_IdaManhattanOptimal ==
    (inp.hname = "manhattan" /\ inp.solvable) =>
        /\ (phase = "ida" /\ idaS.pc = "outer") =>
              idaS.bound <= Distance(board, inp.start, inp.goal)[1]
        /\ IdaJustReturned =>
              \A a \in {IdaLabel(inp)} :
                 LET d == Distance(board, inp.start, inp.goal)
                 IN  /\ rec[a].bound_final <= d[1]
                     /\ rec[a].termination = "ok" =>
                           rec[a].g = d /\ rec[a].bound_final = d[1]

\* ida_star with Manhattan and BPMX solved a start ten or more moves deep in
\* several iterations
C28_Witness ==
    /\ IdaJustReturned /\ inp.use_bpmx
    /\ inp.hname = "manhattan" /\ inp.solvable
    /\ \A a \in {IdaLabel(inp)} :
          /\ rec[a].termination = "ok"
          /\ rec[a].g[1] >= 10
          /\ rec[a].bound_final = rec[a].g[1]
          /\ rec[a].bound_final >= manhattan(board, inp.start) + 4

\* the recursion chain of ida_star: the calls of dfs that are in their loop
\* over the successors start at the start state, each was called by the one
\* before it over an edge, with g and depth one more, and no state is twice
\* on the chain
IdaChain ==
    LET st == idaS.stack
    IN  /\ st # <<>> => st[1].state = inp.start
        /\ \A i \in 1..Len(st) : st[i].depth = i - 1 /\ st[i].g = i - 1
        /\ \A i \in 1..(Len(st) - 1) : IsEdge(board, st[i].state, st[i + 1].state)
        /\ \A i, j \in 1..Len(st) : st[i].state = st[j].state => i = j

\* C29: in ida_star, at every entry of dfs pathset is exactly the set of the
\* states on the recursion chain from the start to the current state, so the
\* path is simple and only on-path states are skipped; every call of dfs
\* that returns a number (pruned at entry, successors used up, BPMX cutoff)
\* leaves pathset as it was at its entry: once the caller has taken the
\* successor out again, pathset is the chain of the caller, and {start} when
\* the call of the outer loop has returned.
C29_PathsetIsChain ==
    phase = "ida" =>
        /\ idaS.pc = "dfs" =>
              /\ idaS.pathset = {idaS.stack[i].state : i \in 1..Len(idaS.stack)}
              /\ IdaChain
        /\ idaS.pc = "outer" =>
              /\ idaS.stack = <<>>
              /\ idaS.pathset = IF IdaFirstIteration THEN {} ELSE {inp.start}

\* a call of dfs three or more deep, in a later iteration, whose loop skips
\* a successor that is on the path and next enters a successor that was
\* visited before and is off the path
C29_Witness ==
    /\ phase = "ida" /\ idaS.pc = "dfs" /\ Len(idaS.stack) >= 3
    /\ idaS.bound > idaS.h0
    /\ IdaTopNext <= Len(IdaTopNbrs)
    /\ IdaTopNext > IdaTop.idx
    /\ IdaTopNbrs[IdaTopNext][1] \in idaS.ever_seen \ idaS.pathset
    /\ IdaTop.min_next < Infinity

====
